---- MODULE Spec2Model ----
(***************************************************************************)
(* State-synchronisation layer over MQTT (transitive utils): topic codec,  *)
(* DataCache, publication queue and MqttSync.                              *)
(*                                                                         *)
(* Strings are sequences of one-character strings, so that the codec, the  *)
(* topic/path conversions and the string concatenations of the code are    *)
(* computed character by character.  JSON values are tagged records:       *)
(*   [t |-> "undef"], [t |-> "null"], [t |-> "prim", v |-> n],             *)
(*   [t |-> "obj", m |-> [key -> value]]                                   *)
(* Object keys are iterated in the fixed order KeyOrder.                   *)
(***************************************************************************)
EXTENDS Integers, Sequences, FiniteSets, TLC

VARIABLES
  seg, encoded, decoded, codecPc,   \* codec round trip: input, encode(input), decode(encode(input))
  fnArgs, fnResult, fnPc,           \* a call of a function of common.js: arguments, results, position
  data,                             \* MqttSync.data: the DataCache document (#data)
  listeners,                        \* DataCache #listeners, in registration order
  flatListeners,                    \* DataCache #flatListeners, in registration order
  call,                             \* the last DataCache.update call and what it did
  steps,                            \* number of input operations so far
  publishedMessages,                \* MqttSync.publishedMessages: mirror of what was sent as retained
  publishQueue,                     \* MqttSync.publishQueue: Map in insertion order, <<topic, value>>
  processing,                       \* MqttSync._processing
  retryTimer,                       \* the number of pending 5 s retry timers of _processQueue_rec
  throttled,                        \* MqttSync._processQueueThrottled is set
  thrTimer, thrPending,             \* its timer runs; a trailing call is pending
  orphanTimer,                      \* a trailing call of a replaced throttled function is pending
  connected,                        \* mqtt.connected
  broker,                           \* the broker's retained messages: topic string -> value
  brokerLog,                        \* every mqtt.publish the broker received, in order
  enqLog,                           \* every _enqueue call, in order
  publishedPaths, subscribedPaths,  \* MqttSync.publishedPaths, MqttSync.subscribedPaths
  op,                               \* the last MqttSync operation and the state it started from
  rpcHandlers,                      \* MqttSync.rpcHandlers: request topic -> handler
  rpcCallbacks,                     \* MqttSync.rpcCallbacks: response topic -> callback
  mqttSubs,                         \* the RPC topics the mqtt client is subscribed to
  net,                              \* messages the broker has sent to the client, in order
  promises,                         \* responses waiting for the promise of a handler
  rpcLog,                           \* the calls made, the callbacks invoked, the last message
  heartbeats,                       \* MqttSync.heartbeats
  heartbeatWaitersOnce,             \* MqttSync.heartbeatWaitersOnce
  timers,                           \* the callbacks of waitForHeartbeatOnce whose setTimeout is pending
  mig,                              \* the migrate option, toGo of migrate, pending subscribe callbacks
  hbLog,                            \* the waiters registered and invoked, the calls of onReady
  pendingSubs,                      \* mqtt.subscribe requests of subscribe() the broker has not answered
  subLog,                           \* the calls of subscribe and unsubscribe, the callbacks invoked
  receivedTopics,                   \* MqttSync.receivedTopics
  clearing,                         \* the calls of clear whose heartbeat has not fired
  clearLog,                         \* what the calls of clear started from and what they did
  syncOptions,                      \* the constructor's ignoreRetain and sliceTopic
  onChangeLog                       \* the change sets onChange was called with, in order

codecVars == <<seg, encoded, decoded, codecPc>>
fnVars == <<fnArgs, fnResult, fnPc>>
rpcVars == <<rpcHandlers, rpcCallbacks, mqttSubs, net, promises, rpcLog>>
hbVars == <<heartbeats, heartbeatWaitersOnce, timers, mig, hbLog>>
clientVars == <<pendingSubs, subLog, receivedTopics, clearing, clearLog, syncOptions, onChangeLog>>
cacheVars == <<data, listeners, flatListeners, call, steps>>
syncVars == <<publishedMessages, publishQueue, processing, retryTimer, throttled, thrTimer,
              thrPending, orphanTimer, connected, broker, brokerLog, enqLog,
              publishedPaths, subscribedPaths, op>>
vars == <<seg, encoded, decoded, codecPc, fnArgs, fnResult, fnPc, data, listeners, flatListeners, call, steps,
          publishedMessages, publishQueue, processing, retryTimer, throttled, thrTimer,
          thrPending, orphanTimer, connected, broker, brokerLog, enqLog,
          publishedPaths, subscribedPaths, op,
          rpcHandlers, rpcCallbacks, mqttSubs, net, promises, rpcLog,
          heartbeats, heartbeatWaitersOnce, timers, mig, hbLog,
          pendingSubs, subLog, receivedTopics, clearing, clearLog, syncOptions, onChangeLog>>

----------------------------------------------------------------------------
(* Bounds *)

MaxLen == 3          \* longest segment string of the codec round trip
MaxUpdates == 2      \* DataCache updates in a run of the cache
MaxEnqueues == 4     \* direct _enqueue calls in a run of the queue
MaxWrites == 3       \* local writes in a run under a publication
MaxMessages == 2     \* inbound messages in a run
MaxPublish == 2      \* publications registered on one selector
MaxTopicLen == 4     \* characters of a topic given to topicToPath
MaxSegs == 2         \* segments of a path given to pathToTopic
MaxSelSegs == 2      \* segments of a selector given to the matchers
MaxTopicSegs == 2    \* segments of a topic given to the matchers
MaxCalls == 2        \* RPC calls in a run
MaxLate == 1         \* messages arriving on a response topic after the response
MaxHeartbeats == 2   \* the heartbeat counter stops counting here (the code tests > 0 and == 1)
MaxWaiters == 2      \* calls of waitForHeartbeatOnce by the application
MaxItems == 2        \* items of the migrate list
MaxClientCalls == 4
MaxClears == 1       \* calls of clear
MaxBeats == 3        \* heartbeat messages the broker sends
MaxVersions == 2     \* versions of a capability in the retained state

----------------------------------------------------------------------------
(* Strings *)

StartsWith(s, pat) == Len(s) >= Len(pat) /\ SubSeq(s, 1, Len(pat)) = pat
EndsWith(s, pat) == Len(s) >= Len(pat) /\ SubSeq(s, Len(s) - Len(pat) + 1, Len(s)) = pat

\* String.prototype.replace(/pat/g, r): left to right, non-overlapping
RECURSIVE ReplaceAll(_, _, _)
ReplaceAll(s, pat, r) ==
  IF Len(s) = 0 THEN <<>>
  ELSE IF StartsWith(s, pat)
       THEN r \o ReplaceAll(SubSeq(s, Len(pat) + 1, Len(s)), pat, r)
       ELSE <<Head(s)>> \o ReplaceAll(Tail(s), pat, r)

\* String.prototype.split('/')
RECURSIVE Split(_)
Split(s) ==
  IF \A i \in 1..Len(s) : s[i] # "/" THEN <<s>>
  ELSE LET i == CHOOSE j \in 1..Len(s) : s[j] = "/" /\ \A k \in 1..(j - 1) : s[k] # "/"
       IN <<SubSeq(s, 1, i - 1)>> \o Split(SubSeq(s, i + 1, Len(s)))

\* Array.prototype.join('/')
RECURSIVE Join(_)
Join(parts) ==
  IF Len(parts) = 0 THEN <<>>
  ELSE IF Len(parts) = 1 THEN parts[1]
  ELSE parts[1] \o <<"/">> \o Join(Tail(parts))

RECURSIVE StringsUpTo(_, _)
StringsUpTo(alphabet, n) ==
  IF n = 0 THEN {<<>>}
  ELSE LET shorter == StringsUpTo(alphabet, n - 1)
       IN shorter \cup {Append(s, c) : s \in shorter, c \in alphabet}

----------------------------------------------------------------------------
(* Topic codec (common.js) *)

encodeTopicElement(x) ==
  ReplaceAll(ReplaceAll(x, <<"%">>, <<"%", "2", "5">>), <<"/">>, <<"%", "2", "F">>)

decodeTopicElement(x) ==
  ReplaceAll(ReplaceAll(x, <<"%", "2", "5">>, <<"%">>), <<"%", "2", "F">>, <<"/">>)

dropWildcardIds(x) == IF StartsWith(x, <<"+">>) THEN <<"+">> ELSE x

pathToTopic(pathArray) ==
  <<"/">> \o Join([i \in 1..Len(pathArray) |->
                     encodeTopicElement(dropWildcardIds(pathArray[i]))])

topicToPath(topic) ==
  LET parts == Split(topic)
      path == [i \in 1..Len(parts) |-> decodeTopicElement(parts[i])]
      shifted == IF Len(path) > 0 /\ Len(path[1]) = 0 THEN Tail(path) ELSE path
  IN IF Len(shifted) > 0 /\ Len(shifted[Len(shifted)]) = 0
     THEN SubSeq(shifted, 1, Len(shifted) - 1)
     ELSE shifted

----------------------------------------------------------------------------
(* JSON values *)

Undef == [t |-> "undef"]
Null == [t |-> "null"]
Prim(n) == [t |-> "prim", v |-> n]
Obj(m) == [t |-> "obj", m |-> m]
EmptyMap == [k \in {} |-> Undef]
EmptyObj == Obj(EmptyMap)

isObject(v) == v.t = "obj"
isNullish(v) == v.t \in {"undef", "null"}          \* value == null

kA == <<"a">>
kB == <<"b">>
kC == <<"c">>
specialKey == <<"$", "_">>
KeyOrder ==
  <<kA, kB, kC, specialKey, <<"i", "d">>, <<"a", "r", "g", "s">>,
    <<"r", "e", "s", "u", "l", "t">>, <<"b", "y">>, <<"o", "f">>>>
keysOf(m) == SelectSeq(KeyOrder, LAMBDA k : k \in DOMAIN m)

----------------------------------------------------------------------------
(* lodash get / set / unset / isEmpty on documents *)

RECURSIVE _get(_, _)
_get(obj, path) ==
  IF Len(path) = 0 THEN obj
  ELSE IF isObject(obj) /\ Head(path) \in DOMAIN obj.m
       THEN _get(obj.m[Head(path)], Tail(path))
       ELSE Undef

\* a non-object on the way is replaced by a new object
RECURSIVE _set(_, _, _)
_set(obj, path, value) ==
  IF Len(path) = 0 THEN value
  ELSE LET k == Head(path)
           base == IF isObject(obj) THEN obj.m ELSE EmptyMap
           child == IF k \in DOMAIN base THEN base[k] ELSE Undef
       IN Obj([x \in DOMAIN base \cup {k} |->
                 IF x = k THEN _set(child, Tail(path), value) ELSE base[x]])

RECURSIVE _unset(_, _)
_unset(obj, path) ==
  IF Len(path) = 0 \/ ~isObject(obj) \/ Head(path) \notin DOMAIN obj.m THEN obj
  ELSE IF Len(path) = 1
       THEN Obj([x \in DOMAIN obj.m \ {Head(path)} |-> obj.m[x]])
       ELSE Obj([obj.m EXCEPT ![Head(path)] = _unset(@, Tail(path))])

\* _.isEmpty: true of an object without keys and of every non-object
isEmpty(v) == ~isObject(v) \/ DOMAIN v.m = {}

----------------------------------------------------------------------------
(* DataCache (DataCache.js) *)

\* unset the path and clean up empty parents, recursively
RECURSIVE unset(_, _)
unset(obj, path) ==
  IF Len(path) = 0 THEN obj
  ELSE LET removed == _unset(obj, path)
           parentPath == SubSeq(path, 1, Len(path) - 1)
           parent == IF Len(parentPath) = 0 THEN removed ELSE _get(removed, parentPath)
       IN IF isEmpty(parent) THEN unset(removed, parentPath) ELSE removed

\* arrays: the elements in index order
Arr(s) == [t |-> "arr", v |-> s]
isArray(v) == v.t = "arr"
Digits == <<"0", "1", "2", "3", "4", "5", "6", "7", "8", "9">>
\* String(key) of an array index
indexKey(i) == <<Digits[i + 1]>>
\* the keys _.forEach visits, and the value under one of them
keysIn(v) == IF isArray(v) THEN [i \in 1..Len(v.v) |-> indexKey(i - 1)] ELSE keysOf(v.m)
valueAt(v, key) ==
  IF isArray(v) THEN v.v[CHOOSE i \in 1..Len(v.v) : indexKey(i - 1) = key] ELSE v.m[key]
\* _.isPlainObject(value) || value instanceof Array
descends(value) == isObject(value) \/ isArray(value)

\* toFlatObject: the <<topic, leaf>> pairs of obj, in iteration order
RECURSIVE toFlat(_, _, _)
toFlat(obj, keys, prefix) ==
  IF Len(keys) = 0 THEN <<>>
  ELSE LET value == valueAt(obj, Head(keys))
           newPrefix == Append(prefix, Head(keys))
           here == IF descends(value)
                   THEN toFlat(value, keysIn(value), newPrefix)
                   ELSE << <<pathToTopic(newPrefix), value>> >>
       IN here \o toFlat(obj, Tail(keys), prefix)

toFlatObject(obj) == IF descends(obj) THEN toFlat(obj, keysIn(obj), <<>>) ELSE <<>>

\* lines 126-139 of updateFromArray: the atomic change and the flat changes
changesOf(path, value) ==
  LET topic == pathToTopic(path)
      flatValue == toFlatObject(value)
  IN [obj |-> <<topic, value>>,
      flatChanges |-> IF descends(value)
                      THEN [i \in 1..Len(flatValue) |->
                              <<topic \o flatValue[i][1], flatValue[i][2]>>]
                      ELSE << <<topic, value>> >>]

NoChange(d) == [data |-> d, fired |-> FALSE, obj |-> <<>>, flatChanges |-> <<>>]
Changed(d, path, value) ==
  [data |-> d, fired |-> TRUE,
   obj |-> changesOf(path, value).obj, flatChanges |-> changesOf(path, value).flatChanges]

\* updateFromArray without the equality check of line 112: every write of a
\* value is stored and notified
updateFromArray_noEqualityCheck(d, path, value) ==
  LET current == _get(d, path)
  IN IF isNullish(value)
     THEN IF current.t = "undef" \/ current.t = "null"
          THEN NoChange(d)
          ELSE Changed(unset(d, path), path, value)
     ELSE Changed(_set(d, path, value), path, value)

\* the document after the write, whether the listeners are called, and with what
updateFromArray(d, path, value) ==
  LET current == _get(d, path)
  IN IF isNullish(value)
     THEN IF current.t = "undef" \/ current.t = "null"
          THEN NoChange(d)
          ELSE Changed(unset(d, path), path, value)
     ELSE IF current = value
          THEN NoChange(d)
          ELSE Changed(_set(d, path, value), path, value)

\* DataCache.get
get(d, path) == IF Len(path) = 0 THEN d ELSE _get(d, path)

----------------------------------------------------------------------------
(* Selector matching (common.js) *)

True == [t |-> "bool", v |-> TRUE]
False == [t |-> "bool", v |-> FALSE]
Str(x) == [t |-> "str", v |-> x]

\* JavaScript truthiness of a value
truthy(v) ==
  \/ v.t = "obj"
  \/ v.t = "bool" /\ v.v
  \/ v.t = "prim" /\ v.v # 0
  \/ v.t = "str" /\ Len(v.v) > 0

\* Object.assign({[name]: value}, sub)
assignBinding(name, value, sub) ==
  LET subMap == IF isObject(sub) THEN sub.m ELSE EmptyMap
  IN Obj([k \in {name} \cup DOMAIN subMap |->
            IF k \in DOMAIN subMap THEN subMap[k] ELSE value])

RECURSIVE byArray(_, _)
byArray(s, p) ==
  IF Len(s) = 0 THEN True
  ELSE IF Len(s[1]) > 0 /\ s[1][1] = "#" THEN True
  ELSE IF Len(p) = 0 THEN True
  ELSE IF s[1] = p[1] THEN byArray(Tail(s), Tail(p))
  ELSE IF Len(s[1]) > 0 /\ s[1][1] = "+"
       THEN LET sub == byArray(Tail(s), Tail(p))
            IN IF truthy(sub) THEN assignBinding(Tail(s[1]), Str(p[1]), sub) ELSE sub
       ELSE False

topicMatch(selector, topic) == byArray(topicToPath(selector), topicToPath(topic))

\* Object.assign({}, matchSoFar, {[name]: key})
assignMatch(matchSoFar, name, key) ==
  Obj([k \in DOMAIN matchSoFar.m \cup {name} |->
         IF k = name THEN Str(key) ELSE matchSoFar.m[k]])

\* forMatchIterator: the calls of the callback, in order
RECURSIVE forMatchIterator(_, _, _, _)
RECURSIVE forMatchKeys(_, _, _, _, _)
forMatchIterator(obj, path, pathSoFar, matchSoFar) ==
  IF Len(path) = 0 \/ path[1] = <<"#">>
  THEN << [value |-> obj, path |-> pathSoFar, match |-> matchSoFar] >>
  ELSE IF Len(path[1]) > 0 /\ isObject(obj)
       THEN forMatchKeys(obj, keysOf(obj.m), path, pathSoFar, matchSoFar)
       ELSE <<>>

\* the loop `for (let key in obj)` of forMatchIterator over the remaining keys
forMatchKeys(obj, keys, path, pathSoFar, matchSoFar) ==
  IF Len(keys) = 0 THEN <<>>
  ELSE LET key == Head(keys)
           next == path[1]
           match == IF StartsWith(next, <<"+">>) /\ Len(next) > 1
                    THEN assignMatch(matchSoFar, Tail(next), key)
                    ELSE matchSoFar
           here == IF key = next \/ next = <<"*">> \/ StartsWith(next, <<"+">>)
                   THEN forMatchIterator(obj.m[key], Tail(path),
                                         Append(pathSoFar, key), match)
                   ELSE <<>>
       IN here \o forMatchKeys(obj, Tail(keys), path, pathSoFar, matchSoFar)

\* selectFromObject: the object after the deletions
RECURSIVE selectFromObject(_, _)
selectFromObject(obj, path) ==
  IF Len(path) = 0 THEN obj
  ELSE LET next == path[1]
       IN IF Len(next) > 0 /\ isObject(obj)
          THEN LET kept == {key \in DOMAIN obj.m :
                              ~(key # next /\ next # <<"*">> /\ ~StartsWith(next, <<"+">>))}
               IN Obj([key \in kept |-> selectFromObject(obj.m[key], Tail(path))])
          ELSE obj

----------------------------------------------------------------------------
(* MqttSync (MqttSync.js): the instance as a record, threaded through the    *)
(* calls of one handler                                                      *)

ensureHashSuffix(topic) ==
  IF EndsWith(topic, <<"/", "#">>) THEN topic
  ELSE IF EndsWith(topic, <<"/">>) THEN topic \o <<"#">>
  ELSE topic \o <<"/", "#">>

\* clone(payload): JSON.parse(JSON.stringify(payload)), which drops the keys
\* whose value is undefined
RECURSIVE clone(_)
clone(payload) ==
  IF isObject(payload)
  THEN Obj([k \in {x \in DOMAIN payload.m : payload.m[x].t # "undef"} |->
              clone(payload.m[k])])
  ELSE payload

\* DataCache.filter(path) on the document d
filter(d, path) == selectFromObject(clone(d), path)

\* mqtt.publish(topic, value == null ? null : JSON.stringify(value),
\* {retain: true}) as the broker applies it: an empty payload removes the
\* retained message of exactly this topic string (a trailing '/' makes a
\* different topic, MQTT 4.7.3)
mqttPublish(S, topic, value) ==
  LET payload == IF isNullish(value) THEN Null ELSE clone(value)
  IN [S EXCEPT
        !.broker = IF payload = Null
                   THEN [t \in DOMAIN S.broker \ {topic} |-> S.broker[t]]
                   ELSE [t \in DOMAIN S.broker \cup {topic} |->
                           IF t = topic THEN payload ELSE S.broker[t]],
        !.brokerLog = Append(S.brokerLog, <<topic, payload>>)]

\* a delete that empties the map
queueDelete_all(queue, topic) == <<>>

\* Map.prototype.delete(topic)
queueDelete(queue, topic) == SelectSeq(queue, LAMBDA e : e[1] # topic)

RECURSIVE _processQueue_rec(_)
_processQueue_rec(S) ==
  IF Len(S.publishQueue) > 0
  THEN LET topic == S.publishQueue[1][1]
           value == S.publishQueue[1][2]
       IN IF S.connected       \* _actuallyPublish returns true
          THEN _processQueue_rec(
                 [mqttPublish(S, topic, value) EXCEPT
                    !.publishQueue = queueDelete(S.publishQueue, topic)])
          ELSE [S EXCEPT !.retryTimer = @ + 1]     \* setTimeout(..., 5000)
  ELSE [S EXCEPT !.processing = FALSE]

\* _processQueue without its test of this._processing
_processQueue_unguarded(S) ==
  _processQueue_rec([S EXCEPT !.processing = TRUE])

_processQueue(S) ==
  IF S.processing THEN S
  ELSE _processQueue_rec([S EXCEPT !.processing = TRUE])

\* the function made by _.throttle(_processQueue, delay): the call on the
\* leading edge runs at once and starts the timer, calls while the timer
\* runs are left to the trailing edge
\* _.throttle(..., {trailing: false}): a call during the wait is dropped
_processQueueThrottled_noTrailing(S) ==
  IF S.thrTimer
  THEN S
  ELSE _processQueue([S EXCEPT !.thrTimer = TRUE])

_processQueueThrottled(S) ==
  IF S.thrTimer
  THEN [S EXCEPT !.thrPending = TRUE]
  ELSE _processQueue([S EXCEPT !.thrTimer = TRUE])

\* publishQueue.push({topic, value}): the array queue of the commented-out code
addToQueue_push(queue, topic, value) == Append(queue, <<topic, value>>)

\* delete the pending entry and insert the new one at the end
addToQueue_moveToEnd(queue, topic, value) ==
  Append(queueDelete(queue, topic), <<topic, value>>)

\* Map.prototype.set(topic, value): a present key keeps its position
addToQueue(queue, topic, value) ==
  IF \E i \in 1..Len(queue) : queue[i][1] = topic
  THEN [i \in 1..Len(queue) |->
          IF queue[i][1] = topic THEN <<topic, value>> ELSE queue[i]]
  ELSE Append(queue, <<topic, value>>)

\* _enqueue recording in publishedMessages what it has sent, not what it
\* has queued
_enqueue_mirrorWhenSent(S, topic, value) ==
  LET queued == [S EXCEPT
                   !.publishQueue = addToQueue(S.publishQueue, topic, value),
                   !.enqLog = Append(S.enqLog,
                                [topic |-> topic, value |-> value,
                                 sent |-> Len(S.brokerLog)])]
      drained == IF queued.throttled THEN _processQueueThrottled(queued)
                 ELSE _processQueue(queued)
      path == topicToPath(topic)
  IN IF Len(drained.publishQueue) > 0 THEN drained
     ELSE [drained EXCEPT
             !.publishedMessages =
                updateFromArray(drained.publishedMessages, Append(path, specialKey),
                                IF isNullish(value) THEN Null ELSE clone(value)).data]

_enqueue(S, topic, value) ==
  LET queued == [S EXCEPT
                   !.publishQueue = addToQueue(S.publishQueue, topic, value),
                   !.enqLog = Append(S.enqLog,
                                [topic |-> topic, value |-> value,
                                 sent |-> Len(S.brokerLog)])]
      drained == IF queued.throttled THEN _processQueueThrottled(queued)
                 ELSE _processQueue(queued)
      path == topicToPath(topic)
  IN [drained EXCEPT
        !.publishedMessages =
           updateFromArray(drained.publishedMessages, Append(path, specialKey),
                           IF isNullish(value) THEN Null ELSE clone(value)).data]

isSubscribed(S, topic) ==
  \E subscribedTopic \in S.subscribedPaths : truthy(topicMatch(subscribedTopic, topic))

isPublished(S, topic) ==
  \E subscribedTopic \in DOMAIN S.publishedPaths :
    /\ truthy(topicMatch(subscribedTopic, topic))
    /\ ~S.publishedPaths[subscribedTopic].atomic

RECURSIVE enqueueAll(_, _)
enqueueAll(S, entries) ==
  IF Len(entries) = 0 THEN S
  ELSE enqueueAll(_enqueue(S, entries[1][1], entries[1][2]), Tail(entries))

\* lines 823-833: the clears for one child oldSubKey of publishedSub
clearsOfSubKey(key, oldSubKey, oldSubVal) ==
  LET flat == toFlatObject(oldSubVal)
      toClear == SelectSeq([i \in 1..Len(flat) |-> flat[i][1]],
                           LAMBDA subkey : EndsWith(subkey, specialKey))
  IN [i \in 1..Len(toClear) |->
        LET oldKey == SubSeq(toClear[i], 1, Len(toClear[i]) - (Len(specialKey) + 1))
            clearKey == key \o <<"/">> \o oldSubKey \o <<"/">> \o oldKey
        IN <<clearKey, Null>>]

RECURSIVE clearsOfSubKeys(_, _, _)
clearsOfSubKeys(key, publishedSub, keys) ==
  IF Len(keys) = 0 THEN <<>>
  ELSE (IF Head(keys) = specialKey THEN <<>>
        ELSE clearsOfSubKey(key, Head(keys), publishedSub.m[Head(keys)]))
       \o clearsOfSubKeys(key, publishedSub, Tail(keys))

\* lines 815-834: flat to atomic.  The clears of one child leave the other
\* children of publishedSub as they were, so they are computed up front.
flatToAtomic(S, key) ==
  LET publishedSub == get(S.publishedMessages, topicToPath(key))
  IN IF isObject(publishedSub)
     THEN enqueueAll(S, clearsOfSubKeys(key, publishedSub, keysOf(publishedSub.m)))
     ELSE S

\* lines 838-857 with visitAncestor of common.js: n is the length of prefix.
\* subObj is the live node of publishedMessages at prefix.  When the visitor
\* clears its only key it is pruned from the document and stays empty, so the
\* walk ends there.
RECURSIVE visitAncestor(_, _, _)
visitAncestor(S, path, n) ==
  LET prefix == SubSeq(path, 1, n)
      subObj == get(S.publishedMessages, prefix)
      oldVal == IF specialKey \in DOMAIN subObj.m THEN subObj.m[specialKey] ELSE Undef
      prefixTopic == pathToTopic(prefix)
      flat == toFlatObject(oldVal)
      visited == IF truthy(oldVal) /\ isObject(oldVal)
                 THEN enqueueAll(_enqueue(S, prefixTopic, Null),
                                 [i \in 1..Len(flat) |->
                                    <<prefixTopic \o flat[i][1], flat[i][2]>>])
                 ELSE S
      pruned == isObject(oldVal) /\ n > 0 /\ DOMAIN subObj.m = {specialKey}
      sub == IF n < Len(path) /\ Len(path[n + 1]) > 0 /\ ~pruned
             THEN _get(visited.publishedMessages, Append(prefix, path[n + 1]))
             ELSE Undef
  IN IF truthy(sub) THEN visitAncestor(visited, path, n + 1) ELSE visited

\* the listener of a non-atomic publication (lines 803-867)
nonAtomicListener(S, key, value, tags) ==
  IF tags.external THEN S
  ELSE LET path == topicToPath(key)
           cleared == flatToAtomic(S, key)
           reified == visitAncestor(cleared, SubSeq(path, 1, Len(path) - 1), 0)
       IN _enqueue(reified, key, value)

\* the listener of an atomic publication (lines 783-796)
atomicListener(S, topic, key, tags) ==
  IF tags.external THEN S
  ELSE LET topicWithoutHash == SubSeq(topic, 1, Len(topic) - 2)
           keyPath == topicToPath(key)
           levels == Len(topicToPath(topicWithoutHash))
           groundedTopic == pathToTopic(
             SubSeq(keyPath, 1, IF levels < Len(keyPath) THEN levels ELSE Len(keyPath)))
       IN _enqueue(S, groundedTopic, get(S.data, topicToPath(groundedTopic)))

\* the wrapper of DataCache.subscribePath around a publication's listener
callListener(S, listener, obj, tags) ==
  IF listener.kind = "publish" /\ truthy(topicMatch(listener.topic, obj[1]))
  THEN IF listener.atomic
       THEN atomicListener(S, listener.topic, obj[1], tags)
       ELSE nonAtomicListener(S, obj[1], obj[2], tags)
  ELSE S

RECURSIVE callListeners(_, _, _, _)
callListeners(S, i, obj, tags) ==
  IF i > Len(S.listeners) THEN S
  ELSE callListeners(callListener(S, S.listeners[i], obj, tags), i + 1, obj, tags)

\* this.data.update(path, value, tags)
dataUpdate(S, path, value, tags) ==
  LET r == updateFromArray(S.data, path, value)
      written == [S EXCEPT !.data = r.data]
  IN IF r.fired THEN callListeners(written, 1, r.obj, tags) ELSE written

NoTags == [external |-> FALSE]
External == [external |-> TRUE]

\* MqttSync.publish(topic, options)
publish(S, topic, options) ==
  LET sel == ensureHashSuffix(topic)
  IN IF sel \in DOMAIN S.publishedPaths /\ S.publishedPaths[sel] = options
     THEN S
     ELSE [S EXCEPT
             !.publishedPaths = [t \in DOMAIN S.publishedPaths \cup {sel} |->
                                   IF t = sel THEN options ELSE S.publishedPaths[t]],
             !.listeners = Append(S.listeners,
                             [kind |-> "publish", topic |-> sel, atomic |-> options.atomic])]

\* what publish(topic, options) returns: the non-atomic branch ends without
\* a return statement (the 'return true' of line 866 is the listener's)
publishReturn(S, topic, options) ==
  LET sel == ensureHashSuffix(topic)
  IN IF sel \in DOMAIN S.publishedPaths /\ S.publishedPaths[sel] = options
     THEN False
     ELSE IF options.atomic THEN True ELSE Undef

\* this.mqtt.subscribe(topic) of the non-atomic branch
publishSubscribes(S, topic, options) ==
  LET sel == ensureHashSuffix(topic)
  IN IF (sel \in DOMAIN S.publishedPaths /\ S.publishedPaths[sel] = options)
        \/ options.atomic
     THEN {} ELSE {sel}

\* updateFromArray for a value JSON.parse has just made: _.eq (line 112)
\* compares objects and arrays by reference, so such a value is equal to
\* nothing the cache holds
updateFromArrayParsed(d, path, value) ==
  IF descends(value) THEN updateFromArray_noEqualityCheck(d, path, value)
  ELSE updateFromArray(d, path, value)

\* this.data.update(topic, json, tags) with json from mqttParsePayload
dataUpdateParsed(S, path, value, tags) ==
  LET r == updateFromArrayParsed(S.data, path, value)
      written == [S EXCEPT !.data = r.data]
  IN IF r.fired THEN callListeners(written, 1, r.obj, tags) ELSE written

\* the 'message' handler of the constructor for a sync message (lines 347-393),
\* json being mqttParsePayload(payload)
onMessage(S, topic, json, retain) ==
  IF ~retain THEN S
  ELSE IF isPublished(S, topic)
       THEN dataUpdateParsed(
              [S EXCEPT !.publishedMessages =
                 updateFromArrayParsed(S.publishedMessages,
                                       Append(topicToPath(topic), specialKey), json).data],
              topicToPath(topic), json, External)
  ELSE IF isSubscribed(S, topic)
       THEN dataUpdateParsed(S, topicToPath(topic), json, NoTags)
  ELSE S

\* a payload as it arrives: zero-length, the text of a JSON value, or text
\* that is not JSON
EmptyPayload == [t |-> "empty"]
JsonPayload(value) == [t |-> "json", v |-> value]
Malformed == [t |-> "malformed"]
Thrown == [t |-> "throw"]

\* tryJSONParse(string): null when JSON.parse throws
tryJSONParse(payload) ==
  IF payload.t = "json" THEN payload.v ELSE Null

\* mqttParsePayload(payload): JSON.parse throws a SyntaxError on text that is
\* not JSON
mqttParsePayload(payload) ==
  IF payload.t = "empty" THEN Null
  ELSE IF payload.t = "json" THEN payload.v
  ELSE Thrown

\* the 'message' handler for a sync message with the payload as it arrives:
\* the instance after the handler, and whether an exception left the handler
onRawMessage(S, topic, payload, retain) ==
  IF retain /\ (isPublished(S, topic) \/ isSubscribed(S, topic))
  THEN LET json == mqttParsePayload(payload)
       IN IF json = Thrown THEN [S |-> S, threw |-> TRUE]
          ELSE [S |-> onMessage(S, topic, json, retain), threw |-> FALSE]
  ELSE [S |-> S, threw |-> FALSE]

----------------------------------------------------------------------------
(* Subscriptions (MqttSync.js): the subscription state of the instance and   *)
(* of its mqtt client as a record                                            *)

\* the answer of the broker to one mqtt.subscribe: no grant list, or the
\* grant of the topic with its QoS (128 and above: failure)
NoGrant == [t |-> "none"]
Grant(topic, qos) == [t |-> "grant", topic |-> topic, qos |-> qos]

\* record of a call of subscribe or unsubscribe
called(log, topic, what) ==
  [log EXCEPT !.lastCall =
     [t \in DOMAIN log.lastCall \cup {topic} |->
        IF t = topic THEN what ELSE log.lastCall[t]]]

\* MqttSync.subscribe(topic, callback), up to the request to the broker
subscribe(K, topic0) ==
  LET topic == ensureHashSuffix(topic0)
      asked == [K EXCEPT !.subLog = [called(@, topic, "subscribe")
                                      EXCEPT !.asked = @ + 1]]
  IN IF topic \in K.subscribedPaths
       THEN [asked EXCEPT !.subLog.callbacks =
               Append(@, [topic |-> topic, arg |-> "undefined"])]
       ELSE [asked EXCEPT !.pendingSubs = Append(@, topic),
                          !.subLog.sent = @ + 1]

\* granted && granted.some(grant => grant.topic == topic && grant.qos < 128)
isGranted(granted, topic) ==
  granted.t = "grant" /\ granted.topic = topic /\ granted.qos < 128

\* the callback of mqtt.subscribe, recording the selector whatever the grant
onSubscribeAnswer_always(K, topic, granted) ==
  [K EXCEPT !.subscribedPaths = @ \cup {topic},
            !.subLog.callbacks = Append(@, [topic |-> topic, arg |-> "null"])]

\* the callback of mqtt.subscribe in MqttSync.subscribe
onSubscribeAnswer(K, topic, granted) ==
  IF isGranted(granted, topic)
    THEN [K EXCEPT !.subscribedPaths = @ \cup {topic},
                   !.subLog.callbacks = Append(@, [topic |-> topic, arg |-> "null"])]
    ELSE [K EXCEPT !.subLog.callbacks = Append(@, [topic |-> topic, arg |-> "error"])]

\* MqttSync.unsubscribe(topic)
unsubscribe(K, topic0) ==
  LET topic == ensureHashSuffix(topic0)
      asked == [K EXCEPT !.subLog = called(@, topic, "unsubscribe")]
  IN IF topic \in K.subscribedPaths
       THEN [asked EXCEPT !.mqttSubs = @ \ {topic},
                          !.subscribedPaths = @ \ {topic}]
       ELSE asked

----------------------------------------------------------------------------
(* Remote procedure calls (MqttSync.js): the RPC state of the instance as a  *)
(* record                                                                    *)

slashRequest == <<"/", "r", "e", "q", "u", "e", "s", "t">>
slashResponse == <<"/", "r", "e", "s", "p", "o", "n", "s", "e">>
kId == <<"i", "d">>
kArgs == <<"a", "r", "g", "s">>
kResult == <<"r", "e", "s", "u", "l", "t">>
kBy == <<"b", "y">>
kOf == <<"o", "f">>

\* String.prototype.replace(pat, r) with a string pattern: the first occurrence
RECURSIVE ReplaceFirst(_, _, _)
ReplaceFirst(str, pat, r) ==
  IF Len(str) = 0 THEN <<>>
  ELSE IF StartsWith(str, pat)
       THEN r \o SubSeq(str, Len(pat) + 1, Len(str))
       ELSE <<Head(str)>> \o ReplaceFirst(Tail(str), pat, r)

\* json.key of a parsed payload
field(json, key) ==
  IF isObject(json) /\ key \in DOMAIN json.m THEN json.m[key] ELSE Undef

\* JSON.stringify(value) parsed again by mqttParsePayload
jsonPayload(value) == clone(value)

\* what the handler registered for the command returns for args
handlerResult(command, args) == Obj(kBy :> Str(command) @@ kOf :> args)

\* mqtt.publish(topic, payload, {retain: false, qos: 2}) as the broker routes
\* it: to the client if it is subscribed to the topic
rpcPublish(R, topic, payload) ==
  IF topic \in R.mqttSubs
  THEN [R EXCEPT !.net = Append(R.net, [topic |-> topic, payload |-> payload])]
  ELSE R

handleRPCRequest(R, topic, json) ==
  LET handler == R.rpcHandlers[topic]
      result == handlerResult(handler.command, field(json, kArgs))
      responseTopic == ReplaceFirst(topic, slashRequest, slashResponse)
                         \o <<"/">> \o field(json, kId).v
      payload == jsonPayload(Obj(kId :> field(json, kId) @@ kResult :> result))
  IN IF handler.async       \* result instanceof Promise
     THEN [R EXCEPT !.promises =
             Append(R.promises, [topic |-> responseTopic, payload |-> payload])]
     ELSE rpcPublish(R, responseTopic, payload)

\* handleRPCResponse that leaves the callback registered
handleRPCResponse_keepCallback(R, topic, json) ==
  [R EXCEPT
     !.results = Append(R.results,
                   [call |-> R.rpcCallbacks[topic], value |-> field(json, kResult)]),
     !.mqttSubs = R.mqttSubs \ {topic}]

handleRPCResponse(R, topic, json) ==
  [R EXCEPT
     !.results = Append(R.results,
                   [call |-> R.rpcCallbacks[topic], value |-> field(json, kResult)]),
     !.rpcCallbacks = [t \in DOMAIN R.rpcCallbacks \ {topic} |-> R.rpcCallbacks[t]],
     !.mqttSubs = R.mqttSubs \ {topic}]

\* the 'message' handler of the constructor for a message that is not a
\* heartbeat and not retained (lines 347-365)
onRpcMessage(R, topic, json) ==
  IF topic \in DOMAIN R.rpcHandlers
  THEN [handleRPCRequest(R, topic, json) EXCEPT !.last = [kind |-> "request", topic |-> topic]]
  ELSE IF topic \in DOMAIN R.rpcCallbacks
       THEN [handleRPCResponse(R, topic, json) EXCEPT
               !.last = [kind |-> "response", topic |-> topic]]
       ELSE [R EXCEPT !.last = [kind |-> "ignored", topic |-> topic]]

\* MqttSync.register(command, handler)
register(R, command, async) ==
  LET requestTopic == command \o slashRequest
  IN [R EXCEPT
        !.rpcHandlers = [t \in DOMAIN R.rpcHandlers \cup {requestTopic} |->
                           IF t = requestTopic
                           THEN [command |-> command, async |-> async]
                           ELSE R.rpcHandlers[t]],
        !.mqttSubs = R.mqttSubs \cup {requestTopic}]

\* MqttSync.call(command, args, callback), id being the value of getRandomId()
rpcCall(R, command, args, id) ==
  LET responseTopic == command \o slashResponse \o <<"/">> \o id
      requestTopic == command \o slashRequest
      subscribed == [R EXCEPT !.mqttSubs = R.mqttSubs \cup {responseTopic}]
      published == rpcPublish(subscribed, requestTopic,
                              jsonPayload(Obj(kId :> Str(id) @@ kArgs :> args)))
      callNo == Len(R.calls) + 1
  IN [published EXCEPT
        !.calls = Append(R.calls, [command |-> command, args |-> args, id |-> id,
                                   topic |-> responseTopic]),
        !.rpcCallbacks = [t \in DOMAIN R.rpcCallbacks \cup {responseTopic} |->
                            IF t = responseTopic THEN callNo ELSE R.rpcCallbacks[t]]]

----------------------------------------------------------------------------
(* Heartbeats and migrate (MqttSync.js): the heartbeat state of the          *)
(* instance as a record, threaded through the calls of one handler.  A       *)
(* callback is a record naming what it does when invoked.                    *)

Cb(kind, id, nested, hasData) ==
  [kind |-> kind, id |-> id, nested |-> nested, hasData |-> hasData]

\* the onReady of the options, supplied in every configuration modelled
onReadyCb == Cb("onReady", 0, FALSE, FALSE)

\* the waiter a nested waiter registers when it is invoked
childOf(id) == id + MaxWaiters

Sat(n, max) == IF n < max THEN n + 1 ELSE n

inSeq(s, x) == \E i \in 1..Len(s) : s[i] = x

\* Op applied to the value of v, v being computed once
With(v, Op(_)) == CHOOSE r \in {Op(x) : x \in {v}} : TRUE

\* record of a waiter at its registration
registered(log, cb) ==
  IF cb.kind = "waiter"
    THEN [log EXCEPT !.waiters =
           [i \in DOMAIN log.waiters \cup {cb.id} |->
              IF i = cb.id
                THEN [cb |-> cb, count |-> 0, early |-> 0, missed |-> 0,
                      fresh |-> log.handling, byFirst |-> FALSE,
                      duringOwn |-> FALSE]
                ELSE log.waiters[i]]]
    ELSE log

\* record of what a migration item has done: its subscription was denied,
\* it published merged data, it called clear, its calls of oneDown
NoItem == [denied |-> FALSE, published |-> FALSE, cleared |-> FALSE, downs |-> 0]

itemNoted(log, id, what) ==
  LET old == IF id \in DOMAIN log.items THEN log.items[id] ELSE NoItem
      new == CASE what = "denied" -> [old EXCEPT !.denied = TRUE]
               [] what = "published" -> [old EXCEPT !.published = TRUE]
               [] what = "cleared" -> [old EXCEPT !.cleared = TRUE]
               [] what = "down" -> [old EXCEPT !.downs = Sat(@, 2)]
  IN [log EXCEPT !.items =
        [i \in DOMAIN log.items \cup {id} |->
           IF i = id THEN new ELSE log.items[i]]]

\* setTimeout(() => this.heartbeatWaitersOnce.push(callback), 1)
waitForHeartbeatOnce(H, cb) ==
  [H EXCEPT !.timers = Append(@, cb),
            !.log = registered(H.log, cb)]

\* the callback the constructor passes to migrate
\* the callback of migrate calling onReady at once
migrateDone_direct(H) == [H EXCEPT !.log.onReady = Append(@, H.heartbeats)]

migrateDone(H) == waitForHeartbeatOnce(H, onReadyCb)

\* const oneDown = () => --toGo == 0 && onReady && onReady()
oneDown(H) ==
  With([H EXCEPT !.mig.toGo = @ - 1],
       LAMBDA H1 : IF H1.mig.toGo = 0 THEN migrateDone(H1) ELSE H1)

\* clear(prefixes): the deletion itself waits for one more heartbeat
clear(H) == waitForHeartbeatOnce(H, Cb("clear", 0, FALSE, FALSE))

\* cb()
invoke(H, cb) ==
  CASE cb.kind = "waiter" ->
         With([H EXCEPT !.log.waiters[cb.id] =
                 [@ EXCEPT !.count = Sat(@, 2),
                           !.byFirst = (H.heartbeats = 0),
                           !.duringOwn = H.log.waiters[cb.id].fresh]],
              LAMBDA H1 :
                IF cb.nested
                  THEN waitForHeartbeatOnce(H1, Cb("waiter", childOf(cb.id), FALSE, FALSE))
                  ELSE H1)
    [] cb.kind = "migrate1" ->
         IF ~cb.hasData
           THEN oneDown([H EXCEPT !.log = itemNoted(@, cb.id, "down")])
           ELSE waitForHeartbeatOnce(
                  [H EXCEPT !.log = itemNoted(@, cb.id, "published")],
                  Cb("migrate2", cb.id, FALSE, TRUE))
    [] cb.kind = "migrate2" ->
         With(clear([H EXCEPT !.log = itemNoted(itemNoted(@, cb.id, "cleared"),
                                                 cb.id, "down")]),
              LAMBDA H1 : oneDown(H1))
    [] cb.kind = "clear" -> H
    [] cb.kind = "onReady" -> [H EXCEPT !.log.onReady = Append(@, H.heartbeats)]

\* this.heartbeatWaitersOnce.forEach(cb => cb()): the elements present when
\* forEach starts
RECURSIVE forEachWaiter(_, _)
forEachWaiter(H, cbs) ==
  IF cbs = <<>> THEN H
  ELSE With(invoke(H, Head(cbs)), LAMBDA H1 : forEachWaiter(H1, Tail(cbs)))

\* what a heartbeat that has been handled leaves in the record of the waiters
afterHeartbeat(H, woke) ==
  [H.log EXCEPT
     !.handling = FALSE,
     !.last = [kind |-> "heartbeat", woke |-> woke],
     !.waiters =
       [i \in DOMAIN H.log.waiters |->
          LET w == H.log.waiters[i]
          IN [w EXCEPT
                !.fresh = FALSE,
                !.early = IF ~w.fresh /\ inSeq(H.timers, w.cb)
                            THEN Sat(w.early, 1) ELSE w.early,
                !.missed = IF inSeq(H.heartbeatWaitersOnce, w.cb)
                             THEN Sat(w.missed, 1) ELSE w.missed]]]

\* the heartbeat branch of the message handler, without its test of
\* this.heartbeats > 0
onHeartbeat_wakeOnFirst(H) ==
  LET wake(H0) ==
        [forEachWaiter(H0, H0.heartbeatWaitersOnce)
           EXCEPT !.heartbeatWaitersOnce = <<>>]
      ready(woken) ==
        IF woken.heartbeats = 1 /\ woken.mig.opt = "none"
          THEN invoke(woken, onReadyCb) ELSE woken
      count(done) ==
        [done EXCEPT !.heartbeats = Sat(@, MaxHeartbeats),
                     !.log = afterHeartbeat(done, TRUE)]
  IN With(With(With([H EXCEPT !.log.handling = TRUE], wake), ready), count)

\* the heartbeat branch of the message handler; a migrate option that is an
\* array, even an empty one, is truthy
onHeartbeat(H) ==
  LET wake(H0) ==
        IF H0.heartbeats > 0
          THEN [forEachWaiter(H0, H0.heartbeatWaitersOnce)
                  EXCEPT !.heartbeatWaitersOnce = <<>>]
          ELSE H0
      ready(woken) ==
        IF woken.heartbeats = 1 /\ woken.mig.opt = "none"
          THEN invoke(woken, onReadyCb) ELSE woken
      count(done) ==
        [done EXCEPT !.heartbeats = Sat(@, MaxHeartbeats),
                     !.log = afterHeartbeat(done, H.heartbeats > 0)]
  IN With(With(With([H EXCEPT !.log.handling = TRUE], wake), ready), count)

\* the callback migrate passes to this.subscribe, without the return of its
\* error branch
onSubscribed_noReturn(H, item, err) ==
  LET denied(H0) ==
        IF err
          THEN oneDown([H0 EXCEPT !.log = itemNoted(itemNoted(@, item.id, "denied"),
                                                    item.id, "down")])
          ELSE H0
  IN With(With(H, denied),
          LAMBDA H1 : waitForHeartbeatOnce(H1, Cb("migrate1", item.id, FALSE,
                                                  item.hasData)))

\* the callback migrate passes to this.subscribe
onSubscribed(H, item, err) ==
  IF err
    THEN oneDown([H EXCEPT !.log = itemNoted(itemNoted(@, item.id, "denied"),
                                             item.id, "down")])
    ELSE waitForHeartbeatOnce(H, Cb("migrate1", item.id, FALSE, item.hasData))

-----------------------------------------------------------------------------
(* Migration (common.js, MqttSync.js): versions, merge, publication *)

\* String.prototype.split(sep) for a one-character separator
RECURSIVE SplitOn(_, _)
SplitOn(s, sep) ==
  IF \A i \in 1..Len(s) : s[i] # sep THEN <<s>>
  ELSE LET i == CHOOSE j \in 1..Len(s) : s[j] = sep /\ \A k \in 1..(j - 1) : s[k] # sep
       IN <<SubSeq(s, 1, i - 1)>> \o SplitOn(SubSeq(s, i + 1, Len(s)), sep)

\* the number a one-digit component of a version stands for
digit(c) == CASE c = "1" -> 1 [] c = "2" -> 2 [] c = "3" -> 3 [] OTHER -> 0

\* semver minVersion of a version or of a partial version (a range): the
\* missing components are 0
semverMinVersion(v) ==
  LET parts == SplitOn(v, ".")
      n(i) == IF i <= Len(parts) /\ Len(parts[i]) > 0 THEN digit(parts[i][1]) ELSE 0
  IN <<n(1), n(2), n(3)>>

\* semver compare: major, then minor, then patch
semverCompare(a, b) ==
  IF a = b THEN 0
  ELSE LET i == CHOOSE j \in 1..3 : a[j] # b[j] /\ \A k \in 1..(j - 1) : a[k] = b[k]
       IN IF a[i] < b[i] THEN 0 - 1 ELSE 1

versionCompare(a, b) == semverCompare(semverMinVersion(a), semverMinVersion(b))

\* Array.prototype.sort(versionCompare): stable
RECURSIVE sortVersions(_)
sortVersions(versions) ==
  IF Len(versions) = 0 THEN <<>>
  ELSE LET last == versions[Len(versions)]
           sorted == sortVersions(SubSeq(versions, 1, Len(versions) - 1))
           notAfter == SelectSeq(sorted, LAMBDA v : versionCompare(v, last) <= 0)
           after == SelectSeq(sorted, LAMBDA v : versionCompare(v, last) > 0)
       IN notAfter \o <<last>> \o after

\* _.merge(object, source), object being an object: a source that is not an
\* object (a number, null, undefined) has no keys to merge
RECURSIVE _merge(_, _)
_merge(object, source) ==
  IF ~isObject(source) THEN object
  ELSE Obj([k \in DOMAIN object.m \cup DOMAIN source.m |->
              IF k \notin DOMAIN source.m THEN object.m[k]
              ELSE LET srcValue == source.m[k]
                       objValue == IF k \in DOMAIN object.m THEN object.m[k] ELSE Undef
                   IN IF isObject(srcValue)
                        THEN _merge(IF isObject(objValue) THEN objValue ELSE EmptyObj,
                                    srcValue)
                        ELSE IF srcValue = Undef /\ k \in DOMAIN object.m
                               THEN objValue
                               ELSE srcValue])

\* versions.forEach(nextVersion => _.merge(merged, newValue))
RECURSIVE mergeEach(_, _, _, _)
mergeEach(merged, versionsObject, versions, subPath) ==
  IF Len(versions) = 0 THEN merged
  ELSE mergeEach(_merge(merged, _get(versionsObject.m[Head(versions)], subPath)),
                 versionsObject, Tail(versions), subPath)

\* mergeVersions(versionsObject, subTopic, {maxVersion}); keys is
\* Object.keys(versionsObject), the versions in the order of their insertion
mergeVersions(versionsObject, keys, subTopic, maxVersion) ==
  LET versions == sortVersions(SelectSeq(keys,
                    LAMBDA ver : versionCompare(ver, maxVersion) <= 0))
      subPath == topicToPath(subTopic)
  IN _set(EmptyObj, subPath, mergeEach(EmptyObj, versionsObject, versions, subPath))

parseMQTTTopic(topic) ==
  LET parse(parts) ==
        [organization |-> parts[1], device |-> parts[2],
         capability |-> parts[3] \o <<"/">> \o parts[4],
         sub |-> SubSeq(parts, 6, Len(parts))]
  IN parse(topicToPath(topic))

resolveDoubleSlashes(path) == ReplaceAll(path, <<"/", "/">>, <<"/">>)

\* the transform of a migrate item: none, or a function of the merged value
wrapKey == <<"w">>
applyTransform(transform, value) ==
  IF transform = "none" THEN value ELSE Obj(wrapKey :> value)

\* `/${organization}/${device}/${capability}` and the suffix of a migrate item
migratePrefix(topic) ==
  LET prefix(parsed) ==
        <<"/">> \o parsed.organization \o <<"/">> \o parsed.device
          \o <<"/">> \o parsed.capability
  IN prefix(parseMQTTTopic(topic))

migrateSuffix(topic) ==
  LET suffix(sub) == IF Len(sub) = 0 THEN <<"/", "#">> ELSE pathToTopic(sub)
  IN suffix(parseMQTTTopic(topic).sub)

\* the retained messages the first heartbeat callback of a migrate item
\* publishes (flat false, level 0) for a prefix without wildcards: forMatch
\* visits the one path of the prefix, and nothing is published when the
\* cache holds no versions there
migratePublish(doc, keys, item) ==
  LET path == topicToPath(migratePrefix(item.topic))
      suffix == migrateSuffix(item.topic)
      value == _get(doc, path)
      groundPrefix == pathToTopic(path)
      merged == mergeVersions(value, keys, suffix, item.newVersion)
      suffixMergedValue == _get(merged, topicToPath(suffix))
      transformed == applyTransform(item.transform, suffixMergedValue)
      newTopic == resolveDoubleSlashes(
                    groundPrefix \o <<"/">> \o item.newVersion \o <<"/">> \o suffix)
  IN IF ~isObject(value) THEN <<>>
     ELSE << [topic |-> newTopic, payload |-> jsonPayload(transformed)] >>

----------------------------------------------------------------------------
(* clear (MqttSync.js): the instance, its heartbeat state and its mqtt       *)
(* client as one record, threaded through the calls of one handler           *)

\* Set.prototype.add: insertion order, no duplicates
setAdd(set, x) == IF inSeq(set, x) THEN set ELSE Append(set, x)

\* options.filter of clear: absent, or a function accepting some topics
NoFilter == [t |-> "none"]
Only(topics) == [t |-> "only", accepts |-> topics]
passes(options, topic) == options.t = "none" \/ topic \in options.accepts

slashHash == <<"/", "#">>

\* collectToDelete(topic), the 'message' listener of one call of clear
RECURSIVE collectToDelete(_, _, _)
collectToDelete(entry, prefixes, topic) ==
  IF prefixes = <<>> THEN entry
  ELSE collectToDelete(
         IF /\ truthy(topicMatch(Head(prefixes) \o slashHash, topic))
            /\ passes(entry.options, topic)
           THEN [entry EXCEPT !.toDelete = Append(@, topic)]
           ELSE entry,
         Tail(prefixes), topic)

\* the listeners of every call of clear that is waiting for its heartbeat
collectAll(active, topic) ==
  [id \in DOMAIN active |-> collectToDelete(active[id], active[id].prefixes, topic)]

\* the mqtt client accepts a topic filter: '#' only as the last level, '+'
\* and '#' only as a whole level
validateTopic(topic) ==
  LET parts == SplitOn(topic, "/")
  IN \A i \in 1..Len(parts) :
       \/ parts[i] = <<"+">>
       \/ parts[i] = <<"#">> /\ i = Len(parts)
       \/ \A j \in 1..Len(parts[i]) : parts[i][j] \notin {"+", "#"}

\* MQTT: the topic filter of a subscription matches the topic of a message
RECURSIVE filterMatches(_, _)
filterMatches(f, topic) ==
  IF f = <<>> THEN topic = <<>>
  ELSE IF f[1] = <<"#">> THEN TRUE
  ELSE IF topic = <<>> THEN FALSE
  ELSE /\ f[1] = <<"+">> \/ f[1] = topic[1]
       /\ filterMatches(Tail(f), Tail(topic))

brokerSends(sub, topic) == filterMatches(SplitOn(sub, "/"), SplitOn(topic, "/"))

\* the retained messages a new subscription makes the broker send, in the
\* order the broker picks
RECURSIVE retainedFor(_, _, _)
retainedFor(stored, topics, sub) ==
  IF topics = {} THEN <<>>
  ELSE LET t == CHOOSE x \in topics : TRUE
       IN (IF brokerSends(sub, t) THEN <<[topic |-> t, json |-> stored[t]]>> ELSE <<>>)
            \o retainedFor(stored, topics \ {t}, sub)

\* this.mqtt.subscribe(topic): nothing is sent for a filter the client
\* rejects; otherwise the broker registers the subscription and sends the
\* retained messages it matches
mqttSubscribe(X, topic) ==
  IF ~validateTopic(topic) THEN X
  ELSE [X EXCEPT !.mqttSubs = @ \cup {topic},
                 !.net = @ \o retainedFor(X.S.broker, DOMAIN X.S.broker, topic)]

\* prefixes.forEach(prefix => ...) of clear: subscribe, and add the topics
\* already received that start with the prefix
RECURSIVE clearForEachPrefix(_, _, _)
clearForEachPrefix(X, id, prefixes) ==
  IF prefixes = <<>> THEN X
  ELSE LET prefix == Head(prefixes)
           known == SelectSeq(X.receivedTopics, LAMBDA topic : StartsWith(topic, prefix))
       IN clearForEachPrefix(
            [mqttSubscribe(X, prefix \o slashHash)
               EXCEPT !.clearing[id].toDelete = @ \o known],
            id, Tail(prefixes))

\* MqttSync.clear(prefixes, callback, options), up to waitForHeartbeatOnce
clearCall(X, prefixes, options) ==
  LET id == Len(X.clearLog) + 1
      listening ==
        [X EXCEPT
           !.clearing = (id :> [prefixes |-> prefixes, options |-> options,
                                toDelete |-> <<>>]) @@ @,
           !.clearLog = Append(@, [prefixes |-> prefixes, options |-> options,
                                   subsBefore |-> X.mqttSubs,
                                   receivedBefore |-> X.receivedTopics,
                                   brokerBefore |-> X.S.broker,
                                   sentBefore |-> Len(X.S.brokerLog),
                                   arrived |-> <<>>, done |-> FALSE,
                                   count |-> 0, published |-> <<>>,
                                   subsAfter |-> {}])]
  IN [clearForEachPrefix(listening, id, prefixes)
        EXCEPT !.hb = waitForHeartbeatOnce(@, Cb("clear", id, FALSE, FALSE))]

\* toDelete.forEach(topic => this.mqtt.publish(topic, nullValue, {retain: true}))
RECURSIVE publishNull(_, _)
publishNull(S, toDelete) ==
  IF toDelete = <<>> THEN S
  ELSE publishNull(mqttPublish(S, Head(toDelete), Null), Tail(toDelete))

\* the heartbeat callback of clear
onClearHeartbeat(X, id) ==
  LET entry == X.clearing[id]
      unsubscribed == X.mqttSubs \ {entry.prefixes[i] : i \in DOMAIN entry.prefixes}
  IN [X EXCEPT
        !.clearing = [i \in DOMAIN @ \ {id} |-> @[i]],
        !.mqttSubs = unsubscribed,
        !.S = publishNull(@, entry.toDelete),
        !.clearLog[id] = [@ EXCEPT !.done = TRUE,
                                   !.count = Len(entry.toDelete),
                                   !.published = entry.toDelete,
                                   !.subsAfter = unsubscribed]]

\* the second heartbeat callback of a migrate item: the prefixes of the
\* versions older than newVersion
prefixesToClear(item) ==
  LET oldVersions == SelectSeq(item.all, LAMBDA v : versionCompare(v, item.newVersion) < 0)
  IN [i \in 1..Len(oldVersions) |->
        resolveDoubleSlashes(migratePrefix(item.topic) \o <<"/">> \o oldVersions[i]
                               \o <<"/">> \o migrateSuffix(item.topic))]

\* const subTopic = `${prefix}/+/${suffix}` made a '#' filter
subTopicOf(item) ==
  ensureHashSuffix(migratePrefix(item.topic) \o <<"/", "+">> \o migrateSuffix(item.topic))

RECURSIVE mqttPublishAll(_, _)
mqttPublishAll(S, msgs) ==
  IF msgs = <<>> THEN S
  ELSE mqttPublishAll(mqttPublish(S, Head(msgs).topic, Head(msgs).payload), Tail(msgs))

\* the first heartbeat callback of a migrate item with data, before it waits
\* for the next heartbeat: publish the merged value, unsubscribe
onMigrateHeartbeat(X, cb) ==
  LET item == X.hb.mig.cleanup[cb.id]
      subTopic == subTopicOf(item)
  IN [X EXCEPT
        !.S = [mqttPublishAll(@, migratePublish(X.S.data, item.all, item))
                 EXCEPT !.subscribedPaths = @ \ {subTopic}],
        !.mqttSubs = @ \ {subTopic}]

\* cb() for a callback of heartbeatWaitersOnce
invokeWaiter(X, cb) ==
  CASE cb.kind = "clear" -> onClearHeartbeat(X, cb.id)
    [] cb.kind = "migrate2" ->
         With(clearCall([X EXCEPT !.hb.log = itemNoted(itemNoted(@, cb.id, "cleared"),
                                                        cb.id, "down")],
                        prefixesToClear(X.hb.mig.cleanup[cb.id]), NoFilter),
              LAMBDA X1 : [X1 EXCEPT !.hb = oneDown(@)])
    [] OTHER ->
         [(IF cb.kind = "migrate1" /\ cb.hasData /\ "cleanup" \in DOMAIN X.hb.mig
             THEN onMigrateHeartbeat(X, cb) ELSE X)
            EXCEPT !.hb = invoke(@, cb)]

RECURSIVE forEachWaiterOf(_, _)
forEachWaiterOf(X, cbs) ==
  IF cbs = <<>> THEN X
  ELSE With(invokeWaiter(X, Head(cbs)), LAMBDA X1 : forEachWaiterOf(X1, Tail(cbs)))

\* the heartbeat branch of the message handler, its waiters acting on the
\* instance and on the mqtt client
onHeartbeatMessage(X) ==
  LET wake(X0) ==
        IF X0.hb.heartbeats > 0
          THEN [forEachWaiterOf(X0, X0.hb.heartbeatWaitersOnce)
                  EXCEPT !.hb.heartbeatWaitersOnce = <<>>]
          ELSE X0
      ready(woken) ==
        IF woken.hb.heartbeats = 1 /\ woken.hb.mig.opt = "none"
          THEN [woken EXCEPT !.hb = invoke(@, onReadyCb)] ELSE woken
      count(done) ==
        [done EXCEPT !.hb.heartbeats = Sat(@, MaxHeartbeats),
                     !.hb.log = afterHeartbeat(done.hb, X.hb.heartbeats > 0)]
  IN With(With(With([X EXCEPT !.hb.log.handling = TRUE], wake), ready), count)

\* record of the topics that arrive while a call of clear is waiting
arrivedAt(log, topic) ==
  [i \in DOMAIN log |->
     IF log[i].done THEN log[i]
     ELSE [log[i] EXCEPT !.arrived = setAdd(@, topic)]]

\* a message that is not a heartbeat: receivedTopics, the cache, and the
\* listeners of the calls of clear
onOtherMessage(X, topic, json) ==
  [X EXCEPT
     !.receivedTopics = setAdd(@, topic),
     !.S = onMessage(@, topic, json, TRUE),
     !.clearing = collectAll(@, topic),
     !.clearLog = arrivedAt(@, topic)]

----------------------------------------------------------------------------
(* Inputs *)

CodecAlphabet == {"%", "/", "2", "5", "F"}

CachePaths == {<<kA>>, <<kB>>, <<kA, kA>>, <<kA, kB>>}
CacheValues ==
  {Undef, Null, Prim(1), EmptyObj, Obj(kA :> Prim(1)), Obj(kB :> Null),
   Obj(kA :> EmptyObj)}

\* the selector of the publications and subscriptions: '/a'
Selector == <<"/", "a">>

\* selectors given to publish, normalised or not
PublishTopics ==
  {<<"/", "a">>, <<"/", "a", "/">>, <<"/", "a", "/", "#">>, <<"/", "b">>,
   <<"/", "+", "/", "b">>}

\* topics of direct _enqueue calls
QueueTopics == {<<"/", "a">>, <<"/", "b">>, <<"/", "c">>}

\* local writes under the selector
SyncWrites ==
  {<<<<kA, kB>>, Prim(1)>>,
   <<<<kA>>, Obj(kB :> Prim(2) @@ kC :> Prim(3))>>,
   <<<<kA, kB>>, Prim(4)>>,
   <<<<kA, kB>>, Obj(kC :> Prim(2))>>,
   <<<<kA, kB, kC>>, Prim(5)>>,
   <<<<kA>>, Null>>}

\* inbound retained messages under the selector
MessageTopics == {<<"/", "a">>, <<"/", "a", "/", "b">>}
MessagePayloads == {Null, Prim(1), Obj(kB :> Prim(2))}

RawPayloads ==
  {EmptyPayload, Malformed, JsonPayload(Prim(1)), JsonPayload(Obj(kB :> Prim(2)))}

\* selectors for subscribe and unsubscribe, the QoS of the answer (-1: no
\* grant list), the topics of other clients' retained messages
SubSelectors == {<<"/", "a">>, <<"/", "a", "/", "#">>, <<"/", "b">>}
GrantedQos == {-1, 0, 1, 128}
SubTopics == {<<"/", "a", "/", "b">>, <<"/", "b">>, <<"/", "c">>}
\* a subscription the application has made on the mqtt client it passes in
OwnSubs == {<<"/", "a", "/", "b">>}

NoCall == [op |-> "none"]
NoArgs == [fn |-> "none"]
\* no migrate option; nothing registered or invoked yet
NoMigrate == [opt |-> "none", toGo |-> 0, subscribing |-> <<>>]
NoHeartbeats ==
  [waiters |-> <<>>, items |-> <<>>, onReady |-> <<>>, handling |-> FALSE,
   last |-> [kind |-> "none", woke |-> FALSE]]
\* no call of subscribe or unsubscribe yet
NoSubs == [lastCall |-> <<>>, callbacks |-> <<>>, asked |-> 0, sent |-> 0]
NoRpc == [calls |-> <<>>, results |-> <<>>, last |-> [kind |-> "none"]]

\* commands, arguments and the ids that getRandomId may return
Commands == {<<"/", "c">>, <<"/", "r", "e", "q", "u", "e", "s", "t", "/", "c">>}
CallArgs == {Prim(1), Prim(2)}
RandomIds == {<<"1", "a">>, <<"z">>}

\* topics and paths for the conversions between them
TopicAlphabet == {"/", "%", "2", "F", "+"}
PathSegments == {<<"a">>, <<"%">>, <<"/">>, <<"%", "2", "F">>, <<"+", "a">>, <<>>}

RECURSIVE SeqsUpTo(_, _)
SeqsUpTo(elements, n) ==
  IF n = 0 THEN {<<>>}
  ELSE LET shorter == SeqsUpTo(elements, n - 1)
       IN shorter \cup {Append(s, e) : s \in shorter, e \in elements}

\* the migrate option: absent, an empty list, or a list of items whose
\* subscriptions the constructor has requested
MigrateItems == [id : 1..MaxItems, hasData : BOOLEAN]
MigrateLists ==
  {l \in SeqsUpTo(MigrateItems, MaxItems) :
     Len(l) > 0 /\ \A i \in 1..Len(l) : l[i].id = i}
MigrateOptions ==
  {NoMigrate, [opt |-> "empty", toGo |-> 0, subscribing |-> <<>>]}
  \cup {[opt |-> "list", toGo |-> Len(l), subscribing |-> l] : l \in MigrateLists}

PathInputs == SeqsUpTo(PathSegments, MaxSegs)

\* selectors and topics for the matchers
SelectorSegments ==
  {<<"a">>, <<"b">>, <<"+">>, <<"+", "x">>, <<"+", "y">>, <<"*">>, <<"#">>}
TopicSegments == {<<"a">>, <<"b">>}
MatchSelectors ==
  {<<"/">> \o Join(p) : p \in SeqsUpTo(SelectorSegments, MaxSelSegs) \ {<<>>}}
MatchTopics ==
  {<<"/">> \o Join(p) : p \in SeqsUpTo(TopicSegments, MaxTopicSegs) \ {<<>>}}
\* the document of the cache that forMatch and filter run on
MatchDoc ==
  Obj(kA :> Obj(kA :> Prim(1) @@ kB :> Prim(2)) @@ kB :> Obj(kA :> Prim(3)))
\* any string of the alphabet, and the topics that pathToTopic makes
TopicInputs == StringsUpTo(TopicAlphabet, MaxTopicLen) \cup {pathToTopic(p) : p \in PathInputs}
\* the retained state of a capability: versions below newVersion, each with
\* a value at the suffix of the item, received in any order
newVersion == <<"1", ".", "2", ".", "0">>
OldVersions == {<<"1", ".", "0">>, <<"1", ".", "0", ".", "1">>, <<"1", ".", "1">>}
capabilityPath == << <<"o">>, <<"d">>, <<"@", "s">>, <<"c">> >>
MigrateSubs == {<<>>, <<kA>>}
MigrateLeaves == {Prim(1), Prim(2)}
MigrateObjects ==
  {Obj(kA :> Prim(1)), Obj(kB :> Prim(2)), Obj(kA :> Obj(kB :> Prim(1))),
   Obj(kA :> Obj(kC :> Prim(2)))}
VersionOrders ==
  {keys \in SeqsUpTo(OldVersions, MaxVersions) :
     Len(keys) > 0 /\ \A i, j \in 1..Len(keys) : i # j => keys[i] # keys[j]}
\* the values a version can hold at sub: the document of a version is an object
MigrateValues(sub) ==
  IF Len(sub) = 0 THEN MigrateObjects ELSE MigrateLeaves \cup MigrateObjects
\* the cache after the retained messages of the versions have arrived
RECURSIVE retained(_, _, _)
retained(keys, values, sub) ==
  IF Len(keys) = 0 THEN EmptyObj
  ELSE _set(retained(SubSeq(keys, 1, Len(keys) - 1),
                     SubSeq(values, 1, Len(keys) - 1), sub),
            capabilityPath \o <<keys[Len(keys)]>> \o sub, values[Len(keys)])
MigrateInputs ==
  UNION {{[fn |-> "migrate", keys |-> keys, values |-> values, sub |-> sub,
           doc |-> retained(keys, values, sub),
           item |-> [topic |-> pathToTopic(capabilityPath \o << <<"+">> >> \o sub),
                     newVersion |-> newVersion, transform |-> transform]] :
            transform \in {"none", "wrap"},
            values \in {v \in SeqsUpTo(MigrateValues(sub), MaxVersions) :
                          Len(v) = Len(keys)}} :
         keys \in VersionOrders, sub \in MigrateSubs}
\* const HEARTBEAT_TOPIC = '$SYS/broker/uptime'
HEARTBEAT_TOPIC ==
  <<"$", "S", "Y", "S", "/", "b", "r", "o", "k", "e", "r", "/",
    "u", "p", "t", "i", "m", "e">>

\* the retained messages of a capability on the broker: an old version with
\* three topics, and the new version
oldVersion == <<"1", ".", "0">>
oldA == pathToTopic(capabilityPath \o <<oldVersion, <<"a">> >>)
oldAb == pathToTopic(capabilityPath \o <<oldVersion, <<"a", "b">> >>)
oldB == pathToTopic(capabilityPath \o <<oldVersion, <<"b">> >>)
newA == pathToTopic(capabilityPath \o <<newVersion, <<"a">> >>)
StoredTopics == <<oldA, oldAb, oldB, newA>>
Stored == [t \in {StoredTopics[i] : i \in DOMAIN StoredTopics} |-> Prim(1)]

\* the cache after the retained messages of the topics have arrived
RECURSIVE cacheOf(_)
cacheOf(topics) ==
  IF topics = <<>> THEN EmptyObj
  ELSE _set(cacheOf(SubSeq(topics, 1, Len(topics) - 1)),
            topicToPath(topics[Len(topics)]), Prim(1))

\* arguments of clear
ClearPrefixLists ==
  LET old == pathToTopic(capabilityPath \o <<oldVersion>>)
  IN {<<oldA>>, <<old>>, <<old, oldA>>}
ClearOptions == {NoFilter, Only({oldA})}

\* the instance before clear: made by the application, which has subscribed
\* to the capability or not; or made by the second heartbeat callback of a
\* migrate item, which has seen the versions and given up its subscription
CleanupItems ==
  {[topic |-> pathToTopic(capabilityPath \o << <<"+">> >> \o sub),
    newVersion |-> newVersion, all |-> <<oldVersion, newVersion>>] :
     sub \in MigrateSubs}
ClearScenarios ==
  {[kind |-> "direct", mig |-> NoMigrate, timers |-> <<>>,
    subs |-> subs, broker |-> Stored,
    data |-> cacheOf(IF subs = {} THEN <<>> ELSE StoredTopics),
    received |-> IF subs = {} THEN <<>> ELSE StoredTopics] :
     subs \in {{}, {ensureHashSuffix(pathToTopic(capabilityPath))}}}
  \cup
  {[kind |-> "migrate",
    mig |-> [opt |-> "list", toGo |-> 1, subscribing |-> <<>>, cleanup |-> <<item>>],
    timers |-> <<Cb("migrate2", 1, FALSE, TRUE)>>,
    subs |-> {}, broker |-> Stored,
    data |-> cacheOf(SelectSeq(StoredTopics, LAMBDA t : brokerSends(subTopicOf(item), t))),
    received |-> SelectSeq(StoredTopics, LAMBDA t : brokerSends(subTopicOf(item), t))] :
     item \in CleanupItems}

\* new MqttSync({mqttClient}): ignoreRetain and sliceTopic are undefined
NoOptions == [ignoreRetain |-> FALSE, sliceTopic |-> 0]
NoResult == [fn |-> "none"]
NoOp == [kind |-> "none", unsynced |-> FALSE, everHeld |-> FALSE]

----------------------------------------------------------------------------
(* Initial states *)

\* new DataCache() and new MqttSync({mqttClient}) on a connected client, the
\* broker holding no retained message; no codec input
Init ==
  /\ seg = <<>>
  /\ encoded = <<>>
  /\ decoded = <<>>
  /\ codecPc = "start"
  /\ fnArgs = NoArgs
  /\ fnResult = NoResult
  /\ fnPc = "idle"
  /\ data = EmptyObj
  /\ listeners = <<>>
  /\ flatListeners = <<>>
  /\ call = NoCall
  /\ steps = 0
  /\ publishedMessages = EmptyObj
  /\ publishQueue = <<>>
  /\ processing = FALSE
  /\ retryTimer = 0
  /\ throttled = FALSE
  /\ thrTimer = FALSE
  /\ thrPending = FALSE
  /\ orphanTimer = FALSE
  /\ connected = TRUE
  /\ broker = EmptyMap
  /\ brokerLog = <<>>
  /\ enqLog = <<>>
  /\ publishedPaths = EmptyMap
  /\ subscribedPaths = {}
  /\ op = NoOp
  /\ rpcHandlers = EmptyMap
  /\ rpcCallbacks = EmptyMap
  /\ mqttSubs = {}
  /\ net = <<>>
  /\ promises = <<>>
  /\ rpcLog = NoRpc
  /\ heartbeats = 0
  /\ heartbeatWaitersOnce = <<>>
  /\ timers = <<>>
  /\ mig = NoMigrate
  /\ hbLog = NoHeartbeats
  /\ pendingSubs = <<>>
  /\ subLog = NoSubs
  /\ receivedTopics = <<>>
  /\ syncOptions = NoOptions
  /\ onChangeLog = <<>>
  /\ clearing = <<>>
  /\ clearLog = <<>>

\* the same, with a topic element to encode
CodecInit ==
  /\ seg \in StringsUpTo(CodecAlphabet, MaxLen)
  /\ encoded = <<>>
  /\ decoded = <<>>
  /\ codecPc = "start"
  /\ fnArgs = NoArgs
  /\ fnResult = NoResult
  /\ fnPc = "idle"
  /\ data = EmptyObj
  /\ listeners = <<>>
  /\ flatListeners = <<>>
  /\ call = NoCall
  /\ steps = 0
  /\ publishedMessages = EmptyObj
  /\ publishQueue = <<>>
  /\ processing = FALSE
  /\ retryTimer = 0
  /\ throttled = FALSE
  /\ thrTimer = FALSE
  /\ thrPending = FALSE
  /\ orphanTimer = FALSE
  /\ connected = TRUE
  /\ broker = EmptyMap
  /\ brokerLog = <<>>
  /\ enqLog = <<>>
  /\ publishedPaths = EmptyMap
  /\ subscribedPaths = {}
  /\ op = NoOp
  /\ rpcHandlers = EmptyMap
  /\ rpcCallbacks = EmptyMap
  /\ mqttSubs = {}
  /\ net = <<>>
  /\ promises = <<>>
  /\ rpcLog = NoRpc
  /\ heartbeats = 0
  /\ heartbeatWaitersOnce = <<>>
  /\ timers = <<>>
  /\ mig = NoMigrate
  /\ hbLog = NoHeartbeats
  /\ pendingSubs = <<>>
  /\ subLog = NoSubs
  /\ receivedTopics = <<>>
  /\ syncOptions = NoOptions
  /\ onChangeLog = <<>>
  /\ clearing = <<>>
  /\ clearLog = <<>>

----------------------------------------------------------------------------
(* Codec round trip *)

Encode ==
  /\ codecPc = "start"
  /\ encoded' = encodeTopicElement(seg)
  /\ codecPc' = "encoded"
  /\ UNCHANGED <<seg, decoded>>
  /\ UNCHANGED <<clientVars, fnVars, cacheVars, syncVars, rpcVars, hbVars>>

Decode ==
  /\ codecPc = "encoded"
  /\ decoded' = decodeTopicElement(encoded)
  /\ codecPc' = "decoded"
  /\ UNCHANGED <<seg, encoded>>
  /\ UNCHANGED <<clientVars, fnVars, cacheVars, syncVars, rpcVars, hbVars>>

CodecNext == Encode \/ Decode
SpecCodec == CodecInit /\ [][CodecNext]_vars

----------------------------------------------------------------------------
(* Conversions between topics and paths *)

\* the state after construction of everything but the function call
ConstructedWith(o) ==
  /\ seg = <<>>
  /\ encoded = <<>>
  /\ decoded = <<>>
  /\ codecPc = "start"
  /\ data = EmptyObj
  /\ listeners = <<>>
  /\ flatListeners = <<>>
  /\ call = NoCall
  /\ steps = 0
  /\ publishedMessages = EmptyObj
  /\ publishQueue = <<>>
  /\ processing = FALSE
  /\ retryTimer = 0
  /\ throttled = FALSE
  /\ thrTimer = FALSE
  /\ thrPending = FALSE
  /\ orphanTimer = FALSE
  /\ connected = TRUE
  /\ broker = EmptyMap
  /\ brokerLog = <<>>
  /\ enqLog = <<>>
  /\ publishedPaths = EmptyMap
  /\ subscribedPaths = {}
  /\ op = NoOp
  /\ rpcHandlers = EmptyMap
  /\ rpcCallbacks = EmptyMap
  /\ mqttSubs = {}
  /\ net = <<>>
  /\ promises = <<>>
  /\ rpcLog = NoRpc
  /\ heartbeats = 0
  /\ heartbeatWaitersOnce = <<>>
  /\ timers = <<>>
  /\ mig = NoMigrate
  /\ hbLog = NoHeartbeats
  /\ pendingSubs = <<>>
  /\ subLog = NoSubs
  /\ receivedTopics = <<>>
  /\ syncOptions = o
  /\ onChangeLog = <<>>
  /\ clearing = <<>>
  /\ clearLog = <<>>

Constructed == ConstructedWith(NoOptions)

\* a topic to convert to a path and back, or a path to convert to a topic and back
TopicInit ==
  /\ fnArgs \in {[fn |-> "topicToPath", topic |-> t] : t \in TopicInputs}
                \cup {[fn |-> "pathToTopic", path |-> p] : p \in PathInputs}
  /\ fnResult = NoResult
  /\ fnPc = "start"
  /\ Constructed

\* topicToPath(topic), of the input or of the result of pathToTopic
TopicToPath ==
  /\ \/ fnPc = "start" /\ fnArgs.fn = "topicToPath"
        /\ fnResult' = [fn |-> "topicToPath", path |-> topicToPath(fnArgs.topic)]
        /\ fnPc' = "converted"
     \/ fnPc = "converted" /\ fnResult.fn = "pathToTopic"
        /\ fnResult' = [fn |-> "roundTrip", back |-> topicToPath(fnResult.topic)]
        /\ fnPc' = "done"
  /\ UNCHANGED fnArgs
  /\ UNCHANGED <<clientVars, codecVars, cacheVars, syncVars, rpcVars, hbVars>>

\* pathToTopic(path), of the input or of the result of topicToPath
PathToTopic ==
  /\ \/ fnPc = "start" /\ fnArgs.fn = "pathToTopic"
        /\ fnResult' = [fn |-> "pathToTopic", topic |-> pathToTopic(fnArgs.path)]
        /\ fnPc' = "converted"
     \/ fnPc = "converted" /\ fnResult.fn = "topicToPath"
        /\ fnResult' = [fn |-> "roundTrip", back |-> pathToTopic(fnResult.path)]
        /\ fnPc' = "done"
  /\ UNCHANGED fnArgs
  /\ UNCHANGED <<clientVars, codecVars, cacheVars, syncVars, rpcVars, hbVars>>

TopicNext == TopicToPath \/ PathToTopic
SpecTopic == TopicInit /\ [][TopicNext]_vars

----------------------------------------------------------------------------
(* Matching selectors against topics and documents *)

\* a selector, a topic, and the tags of the update of the topic
MatchInit ==
  /\ fnArgs \in {[fn |-> "match", selector |-> sel, topic |-> t, value |-> Prim(7),
                   tags |-> tags] :
                    sel \in MatchSelectors, t \in MatchTopics, tags \in {NoTags, External}}
  /\ fnResult = NoResult
  /\ fnPc = "start"
  /\ Constructed

\* topicMatch(selector, topic)
TopicMatch ==
  /\ fnPc = "start"
  /\ fnArgs.fn = "match"
  /\ fnResult' = [fn |-> "match", matched |-> topicMatch(fnArgs.selector, fnArgs.topic)]
  /\ fnPc' = "matched"
  /\ UNCHANGED fnArgs
  /\ UNCHANGED <<clientVars, codecVars, cacheVars, syncVars, rpcVars, hbVars>>

\* subscribePath(selector, callback) on a new DataCache, then
\* update(topic, value, tags): the arguments of the calls of the callback
SubscribePathUpdate ==
  /\ fnPc = "matched"
  /\ LET r == updateFromArray(EmptyObj, topicToPath(fnArgs.topic), fnArgs.value)
         key == r.obj[1]
         matched == topicMatch(fnArgs.selector, key)
     IN fnResult' =
          [fn |-> "match", matched |-> fnResult.matched,
           calls |-> IF r.fired /\ truthy(matched)
                     THEN << [value |-> r.obj[2], key |-> key, matched |-> matched,
                              tags |-> fnArgs.tags] >>
                     ELSE <<>>]
  /\ fnPc' = "delivered"
  /\ UNCHANGED fnArgs
  /\ UNCHANGED <<clientVars, codecVars, cacheVars, syncVars, rpcVars, hbVars>>

\* DataCache.forMatch(selector, callback) on a cache holding MatchDoc
ForMatch ==
  /\ fnPc = "delivered"
  /\ fnResult' =
       [fn |-> "match", matched |-> fnResult.matched, calls |-> fnResult.calls,
        forMatch |-> forMatchIterator(get(MatchDoc, <<>>), topicToPath(fnArgs.selector),
                                      <<>>, EmptyObj)]
  /\ fnPc' = "iterated"
  /\ UNCHANGED fnArgs
  /\ UNCHANGED <<clientVars, codecVars, cacheVars, syncVars, rpcVars, hbVars>>

\* DataCache.filterByTopic(selector) on a cache holding MatchDoc
Filter ==
  /\ fnPc = "iterated"
  /\ fnResult' =
       [fn |-> "match", matched |-> fnResult.matched, calls |-> fnResult.calls,
        forMatch |-> fnResult.forMatch,
        filtered |-> filter(get(MatchDoc, <<>>), topicToPath(fnArgs.selector))]
  /\ fnPc' = "done"
  /\ UNCHANGED fnArgs
  /\ UNCHANGED <<clientVars, codecVars, cacheVars, syncVars, rpcVars, hbVars>>

MatchNext == TopicMatch \/ SubscribePathUpdate \/ ForMatch \/ Filter
SpecMatch == MatchInit /\ [][MatchNext]_vars

----------------------------------------------------------------------------
(* DataCache operations *)

\* DataCache.update(path, value) on an array path
Update(path, value) ==
  LET r == updateFromArray(data, path, value)
  IN /\ steps < MaxUpdates
     /\ steps' = steps + 1
     /\ data' = r.data
     /\ call' = [op |-> "update", path |-> path, value |-> value, before |-> data,
                 ret |-> r.flatChanges,
                 atomicCalls |-> IF r.fired THEN [i \in 1..Len(listeners) |-> r.obj]
                                 ELSE <<>>,
                 flatCalls |-> IF r.fired THEN [i \in 1..Len(flatListeners) |-> r.flatChanges]
                               ELSE <<>>]
     /\ UNCHANGED <<listeners, flatListeners>>
     /\ UNCHANGED <<clientVars, codecVars, fnVars, syncVars, rpcVars, hbVars>>

\* DataCache.subscribe(callback)
Subscribe ==
  /\ Len(listeners) = 0
  /\ listeners' = Append(listeners, [kind |-> "callback"])
  /\ UNCHANGED <<data, flatListeners, call, steps>>
  /\ UNCHANGED <<clientVars, codecVars, fnVars, syncVars, rpcVars, hbVars>>

\* DataCache.subscribePathFlat('/#', callback)
SubscribePathFlat ==
  /\ Len(flatListeners) = 0
  /\ flatListeners' = Append(flatListeners, [kind |-> "callback"])
  /\ UNCHANGED <<data, listeners, call, steps>>
  /\ UNCHANGED <<clientVars, codecVars, fnVars, syncVars, rpcVars, hbVars>>

CacheNext ==
  \/ \E p \in CachePaths, v \in CacheValues : Update(p, v)
  \/ Subscribe
  \/ SubscribePathFlat

SpecCache == Init /\ [][CacheNext]_vars

----------------------------------------------------------------------------
(* MqttSync operations *)

\* the instance as a record
Instance ==
  [data |-> data, listeners |-> listeners, publishedMessages |-> publishedMessages,
   publishQueue |-> publishQueue, processing |-> processing, retryTimer |-> retryTimer,
   throttled |-> throttled, thrTimer |-> thrTimer, thrPending |-> thrPending,
   connected |-> connected, broker |-> broker, brokerLog |-> brokerLog,
   enqLog |-> enqLog, publishedPaths |-> publishedPaths,
   subscribedPaths |-> subscribedPaths]

Becomes(S) ==
  /\ data' = S.data
  /\ listeners' = S.listeners
  /\ publishedMessages' = S.publishedMessages
  /\ publishQueue' = S.publishQueue
  /\ processing' = S.processing
  /\ retryTimer' = S.retryTimer
  /\ throttled' = S.throttled
  /\ thrTimer' = S.thrTimer
  /\ thrPending' = S.thrPending
  /\ connected' = S.connected
  /\ broker' = S.broker
  /\ brokerLog' = S.brokerLog
  /\ enqLog' = S.enqLog
  /\ publishedPaths' = S.publishedPaths
  /\ subscribedPaths' = S.subscribedPaths

\* what the last operation was and the state it started from
HeldBack == ~connected \/ processing \/ throttled \/ Len(publishQueue) > 0

OpRecord(kind, arg) ==
  [kind |-> kind, arg |-> arg, mirrorBefore |-> publishedMessages,
   enqFrom |-> Len(enqLog), sentFrom |-> Len(brokerLog),
   heldBack |-> HeldBack,
   \* a write was made before the publication was registered
   unsynced |-> op.unsynced \/ (kind = "write" /\ Len(listeners) = 0),
   \* an operation has found the queue held back
   everHeld |-> op.everHeld \/ HeldBack]

\* this.receivedTopics.add(topic) of the message handler, and the other
\* 'message' listeners of the mqtt client, which an exception thrown by the
\* handler keeps from running
Arrives(topic, threw) ==
  /\ receivedTopics' = setAdd(receivedTopics, topic)
  /\ clearing' = IF threw THEN clearing ELSE collectAll(clearing, topic)
  /\ clearLog' = IF threw THEN clearLog ELSE arrivedAt(clearLog, topic)
  /\ UNCHANGED <<pendingSubs, subLog, syncOptions, onChangeLog>>

\* mqttSync.publish(Selector, {atomic})
Publish(atomic) ==
  /\ Len(listeners) < MaxPublish
  /\ publish(Instance, Selector, [atomic |-> atomic]) # Instance
  /\ Becomes(publish(Instance, Selector, [atomic |-> atomic]))
  /\ op' = OpRecord("publish", atomic)
  /\ UNCHANGED <<orphanTimer, flatListeners, call, steps>>
  /\ UNCHANGED <<clientVars, codecVars, fnVars, rpcVars, hbVars>>

\* mqttSync.subscribe(Selector), granted by the broker (lines 633-638)
SubscribeGranted ==
  /\ ensureHashSuffix(Selector) \notin subscribedPaths
  /\ subscribedPaths' = subscribedPaths \cup {ensureHashSuffix(Selector)}
  /\ op' = OpRecord("subscribe", Selector)
  /\ UNCHANGED <<data, listeners, publishedMessages, publishQueue, processing,
                 retryTimer, throttled, thrTimer, thrPending, orphanTimer, connected,
                 broker, brokerLog, enqLog, publishedPaths>>
  /\ UNCHANGED <<flatListeners, call, steps>>
  /\ UNCHANGED <<clientVars, codecVars, fnVars, rpcVars, hbVars>>

\* mqttSync.data.update(path, value): a local write
LocalWrite(path, value) ==
  /\ steps < MaxWrites
  /\ steps' = steps + 1
  /\ Becomes(dataUpdate(Instance, path, value, NoTags))
  /\ op' = OpRecord("write", <<path, value>>)
  /\ UNCHANGED <<orphanTimer, flatListeners, call>>
  /\ UNCHANGED <<clientVars, codecVars, fnVars, rpcVars, hbVars>>

\* the broker delivers a message of another client
Message(topic, json, retain) ==
  /\ steps < MaxMessages
  /\ steps' = steps + 1
  /\ Becomes(onMessage(Instance, topic, json, retain))
  /\ Arrives(topic, FALSE)
  /\ op' = OpRecord("message", <<topic, json>>)
  /\ UNCHANGED <<orphanTimer, flatListeners, call>>
  /\ UNCHANGED <<codecVars, fnVars, rpcVars, hbVars>>

\* mqttSync._enqueue(topic, value), the value being the number of the call
Enqueue(topic) ==
  /\ steps < MaxEnqueues
  /\ steps' = steps + 1
  /\ Becomes(_enqueue(Instance, topic, Prim(steps + 1)))
  /\ op' = OpRecord("enqueue", topic)
  /\ UNCHANGED <<orphanTimer, flatListeners, call>>
  /\ UNCHANGED <<clientVars, codecVars, fnVars, rpcVars, hbVars>>

\* the client loses the connection
Disconnect ==
  /\ connected
  /\ connected' = FALSE
  /\ UNCHANGED <<data, listeners, publishedMessages, publishQueue, processing,
                 retryTimer, throttled, thrTimer, thrPending, orphanTimer,
                 broker, brokerLog, enqLog, publishedPaths, subscribedPaths, op>>
  /\ UNCHANGED <<flatListeners, call, steps>>
  /\ UNCHANGED <<clientVars, codecVars, fnVars, rpcVars, hbVars>>

\* the client is connected again
Reconnect ==
  /\ ~connected
  /\ connected' = TRUE
  /\ UNCHANGED <<data, listeners, publishedMessages, publishQueue, processing,
                 retryTimer, throttled, thrTimer, thrPending, orphanTimer,
                 broker, brokerLog, enqLog, publishedPaths, subscribedPaths, op>>
  /\ UNCHANGED <<flatListeners, call, steps>>
  /\ UNCHANGED <<clientVars, codecVars, fnVars, rpcVars, hbVars>>

\* the timer of line 711 fires: setTimeout(() => this._processQueue_rec(cb), 5000)
RetryTimer ==
  /\ retryTimer > 0
  /\ Becomes(_processQueue_rec([Instance EXCEPT !.retryTimer = @ - 1]))
  /\ UNCHANGED <<orphanTimer, op, flatListeners, call, steps>>
  /\ UNCHANGED <<clientVars, codecVars, fnVars, rpcVars, hbVars>>

\* mqttSync.setThrottle(delay): a new throttled function; the timer of a
\* replaced one still fires its trailing call
SetThrottle ==
  /\ ~throttled \/ thrTimer
  /\ throttled' = TRUE
  /\ thrTimer' = FALSE
  /\ thrPending' = FALSE
  /\ orphanTimer' = (orphanTimer \/ (thrTimer /\ thrPending))
  /\ UNCHANGED <<data, listeners, publishedMessages, publishQueue, processing,
                 retryTimer, connected, broker, brokerLog, enqLog, publishedPaths,
                 subscribedPaths, op>>
  /\ UNCHANGED <<flatListeners, call, steps>>
  /\ UNCHANGED <<clientVars, codecVars, fnVars, rpcVars, hbVars>>

\* mqttSync.clearThrottle()
ClearThrottle ==
  /\ throttled
  /\ throttled' = FALSE
  /\ thrTimer' = FALSE
  /\ thrPending' = FALSE
  /\ orphanTimer' = (orphanTimer \/ (thrTimer /\ thrPending))
  /\ UNCHANGED <<data, listeners, publishedMessages, publishQueue, processing,
                 retryTimer, connected, broker, brokerLog, enqLog, publishedPaths,
                 subscribedPaths, op>>
  /\ UNCHANGED <<flatListeners, call, steps>>
  /\ UNCHANGED <<clientVars, codecVars, fnVars, rpcVars, hbVars>>

\* the timer of the throttled function fires: the trailing call, if one is pending
ThrottleTimer ==
  /\ thrTimer
  /\ Becomes(IF thrPending
             THEN _processQueue([Instance EXCEPT !.thrTimer = FALSE, !.thrPending = FALSE])
             ELSE [Instance EXCEPT !.thrTimer = FALSE])
  /\ UNCHANGED <<orphanTimer, op, flatListeners, call, steps>>
  /\ UNCHANGED <<clientVars, codecVars, fnVars, rpcVars, hbVars>>

\* the timer of a replaced or cleared throttled function fires its trailing call
OrphanTimer ==
  /\ orphanTimer
  /\ orphanTimer' = FALSE
  /\ Becomes(_processQueue(Instance))
  /\ UNCHANGED <<op, flatListeners, call, steps>>
  /\ UNCHANGED <<clientVars, codecVars, fnVars, rpcVars, hbVars>>

\* mqttSync.publish(topic, {atomic}), registered already or not
PublishCall(topic, atomic) ==
  LET options == [atomic |-> atomic]
      after == publish(Instance, topic, options)
  IN /\ Len(after.listeners) <= MaxPublish
     /\ Becomes(after)
     /\ mqttSubs' = mqttSubs \cup publishSubscribes(Instance, topic, options)
     /\ op' = OpRecord("publishCall", <<topic, options>>)
                @@ [returned |-> publishReturn(Instance, topic, options),
                    listenersBefore |-> listeners,
                    pathsBefore |-> publishedPaths]
     /\ UNCHANGED <<orphanTimer, flatListeners, call, steps>>
     /\ UNCHANGED <<rpcHandlers, rpcCallbacks, net, promises, rpcLog>>
     /\ UNCHANGED <<clientVars, codecVars, fnVars, hbVars>>

PublishNext == \E topic \in PublishTopics, atomic \in BOOLEAN : PublishCall(topic, atomic)

SpecPublish == Init /\ [][PublishNext]_vars

\* the broker delivers a message, its payload not parsed yet
RawMessage(topic, payload, retain) ==
  \E handled \in {onRawMessage(Instance, topic, payload, retain)} :
     /\ steps < MaxMessages
     /\ steps' = steps + 1
     /\ Becomes(handled.S)
     /\ Arrives(topic, handled.threw)
     /\ op' = OpRecord("rawMessage", <<topic, payload, retain>>)
                @@ [threw |-> handled.threw, dataBefore |-> data]
     /\ UNCHANGED <<orphanTimer, flatListeners, call>>
     /\ UNCHANGED <<codecVars, fnVars, rpcVars, hbVars>>

\* inbound payloads under publications and subscriptions
RawNext ==
  \/ Publish(FALSE)
  \/ SubscribeGranted
  \/ \E t \in MessageTopics, payload \in RawPayloads, retain \in BOOLEAN :
       RawMessage(t, payload, retain)

SpecRaw == Init /\ [][RawNext]_vars

\* the subscription state of the instance and of its mqtt client
Client ==
  [subscribedPaths |-> subscribedPaths, mqttSubs |-> mqttSubs,
   pendingSubs |-> pendingSubs, subLog |-> subLog]

ClientBecomes(K) ==
  /\ subscribedPaths' = K.subscribedPaths
  /\ mqttSubs' = K.mqttSubs
  /\ pendingSubs' = K.pendingSubs
  /\ subLog' = K.subLog
  /\ UNCHANGED <<data, listeners, publishedMessages, publishQueue, processing,
                 retryTimer, throttled, thrTimer, thrPending, orphanTimer, connected,
                 broker, brokerLog, enqLog, publishedPaths>>
  /\ UNCHANGED <<flatListeners, call>>
  /\ UNCHANGED <<rpcHandlers, rpcCallbacks, net, promises, rpcLog>>
  /\ UNCHANGED <<receivedTopics, clearing, clearLog, syncOptions, onChangeLog>>
  /\ UNCHANGED <<codecVars, fnVars, hbVars>>

\* mqttSync.subscribe(selector, cb)
SubscribeCall(selector) ==
  /\ steps < MaxClientCalls
  /\ steps' = steps + 1
  /\ ClientBecomes(subscribe(Client, selector))
  /\ op' = OpRecord("subscribeCall", selector)

\* the broker answers the oldest request: it registers the subscription it
\* grants, and the client calls the callback of mqtt.subscribe
SubscribeAnswer(qos) ==
  /\ pendingSubs # <<>>
  /\ LET topic == Head(pendingSubs)
         granted == IF qos < 0 THEN NoGrant ELSE Grant(topic, qos)
         answered == [Client EXCEPT
                        !.pendingSubs = Tail(@),
                        !.mqttSubs = IF isGranted(granted, topic)
                                       THEN @ \cup {topic} ELSE @]
     IN /\ ClientBecomes(onSubscribeAnswer(answered, topic, granted))
        /\ op' = OpRecord("subscribeAnswer", <<topic, granted>>)
  /\ UNCHANGED steps

\* mqttSync.unsubscribe(selector)
UnsubscribeCall(selector) ==
  /\ steps < MaxClientCalls
  /\ steps' = steps + 1
  /\ ClientBecomes(unsubscribe(Client, selector))
  /\ op' = OpRecord("unsubscribeCall", selector)

\* the broker delivers a retained message on a topic the client holds a
\* subscription for, made by the instance or by the application itself
DeliverRetained(topic, json) ==
  /\ steps < MaxClientCalls
  /\ \E sub \in mqttSubs \cup OwnSubs : brokerSends(sub, topic)
  /\ steps' = steps + 1
  /\ Becomes(onMessage(Instance, topic, json, TRUE))
  /\ Arrives(topic, FALSE)
  /\ op' = OpRecord("deliver", <<topic, json>>) @@ [dataBefore |-> data]
  /\ UNCHANGED <<orphanTimer, flatListeners, call>>
  /\ UNCHANGED <<codecVars, fnVars, rpcVars, hbVars>>

\* subscriptions requested, answered and given up, with messages arriving
SubNext ==
  \/ \E selector \in SubSelectors : SubscribeCall(selector)
  \/ \E qos \in GrantedQos : SubscribeAnswer(qos)
  \/ \E selector \in SubSelectors : UnsubscribeCall(selector)
  \/ \E t \in SubTopics, json \in {Prim(1)} : DeliverRetained(t, json)

SpecSub == Init /\ [][SubNext]_vars

\* the publication queue under direct _enqueue calls
QueueNext ==
  \/ \E t \in QueueTopics : Enqueue(t)
  \/ Disconnect
  \/ Reconnect
  \/ RetryTimer
  \/ SetThrottle
  \/ ClearThrottle
  \/ ThrottleTimer
  \/ OrphanTimer

SpecQueue == Init /\ [][QueueNext]_vars

\* local writes under a non-atomic publication
SyncNext ==
  \/ Publish(FALSE)
  \/ \E w \in SyncWrites : LocalWrite(w[1], w[2])
  \/ Disconnect
  \/ Reconnect
  \/ RetryTimer

SpecSync == Init /\ [][SyncNext]_vars

\* inbound messages under publications and subscriptions
MsgNext ==
  \/ \E atomic \in BOOLEAN : Publish(atomic)
  \/ SubscribeGranted
  \/ \E t \in MessageTopics, json \in MessagePayloads, retain \in BOOLEAN :
       Message(t, json, retain)

SpecMsg == Init /\ [][MsgNext]_vars

----------------------------------------------------------------------------
(* Remote procedure calls *)

RpcInstance ==
  [rpcHandlers |-> rpcHandlers, rpcCallbacks |-> rpcCallbacks, mqttSubs |-> mqttSubs,
   net |-> net, promises |-> promises, calls |-> rpcLog.calls,
   results |-> rpcLog.results, last |-> rpcLog.last]

RpcBecomes(R) ==
  /\ rpcHandlers' = R.rpcHandlers
  /\ rpcCallbacks' = R.rpcCallbacks
  /\ mqttSubs' = R.mqttSubs
  /\ net' = R.net
  /\ promises' = R.promises
  /\ rpcLog' = [calls |-> R.calls, results |-> R.results, last |-> R.last]

\* mqttSync.register(command, handler), the handler being async or not
Register(command, async) ==
  /\ command \o slashRequest \notin DOMAIN rpcHandlers
  /\ RpcBecomes([register(RpcInstance, command, async) EXCEPT
                   !.last = [kind |-> "register"]])
  /\ UNCHANGED <<clientVars, codecVars, fnVars, cacheVars, syncVars, hbVars>>

\* mqttSync.call(command, args, callback) of a registered command
Call(command, args, id) ==
  /\ Len(rpcLog.calls) < MaxCalls
  /\ command \o slashRequest \in DOMAIN rpcHandlers
  /\ RpcBecomes([rpcCall(RpcInstance, command, args, id) EXCEPT
                   !.last = [kind |-> "call"]])
  /\ UNCHANGED <<clientVars, codecVars, fnVars, cacheVars, syncVars, hbVars>>

\* the client receives the next message
Deliver ==
  /\ Len(net) > 0
  /\ RpcBecomes(onRpcMessage([RpcInstance EXCEPT !.net = Tail(net)],
                             net[1].topic, net[1].payload))
  /\ Arrives(net[1].topic, FALSE)
  /\ UNCHANGED <<codecVars, fnVars, cacheVars, syncVars, hbVars>>

\* the promise of an async handler resolves: result.then(...) publishes
Resolve(i) ==
  /\ i \in 1..Len(promises)
  /\ RpcBecomes([rpcPublish(
                    [RpcInstance EXCEPT
                       !.promises = SubSeq(promises, 1, i - 1)
                                      \o SubSeq(promises, i + 1, Len(promises))],
                    promises[i].topic, promises[i].payload)
                 EXCEPT !.last = [kind |-> "resolve"]])
  /\ UNCHANGED <<clientVars, codecVars, fnVars, cacheVars, syncVars, hbVars>>

\* one more message arrives on the response topic of a call whose response
\* has been delivered
LateMessage(c) ==
  /\ c \in 1..Len(rpcLog.calls)
  /\ \E i \in 1..Len(rpcLog.results) : rpcLog.results[i].call = c
  /\ steps < MaxLate
  /\ steps' = steps + 1
  /\ net' = Append(net, [topic |-> rpcLog.calls[c].topic,
                         payload |-> jsonPayload(Obj(kId :> Str(rpcLog.calls[c].id)
                                                       @@ kResult :> Prim(0)))])
  /\ UNCHANGED <<rpcHandlers, rpcCallbacks, mqttSubs, promises, rpcLog>>
  /\ UNCHANGED <<data, listeners, flatListeners, call>>
  /\ UNCHANGED <<clientVars, codecVars, fnVars, syncVars, hbVars>>

RpcNext ==
  \/ \E command \in Commands, async \in BOOLEAN : Register(command, async)
  \/ \E command \in Commands, args \in CallArgs, id \in RandomIds : Call(command, args, id)
  \/ Deliver
  \/ \E i \in 1..MaxCalls : Resolve(i)
  \/ \E c \in 1..MaxCalls : LateMessage(c)

SpecRpc == Init /\ [][RpcNext]_vars

-----------------------------------------------------------------------------
(* Heartbeats, one-shot waiters, migrate and onReady *)

Hb ==
  [heartbeats |-> heartbeats, heartbeatWaitersOnce |-> heartbeatWaitersOnce,
   timers |-> timers, mig |-> mig, log |-> hbLog]

HbBecomes(H) ==
  /\ heartbeats' = H.heartbeats
  /\ heartbeatWaitersOnce' = H.heartbeatWaitersOnce
  /\ timers' = H.timers
  /\ mig' = H.mig
  /\ hbLog' = H.log
  /\ UNCHANGED <<clientVars, codecVars, fnVars, cacheVars, syncVars, rpcVars>>

\* an instance that has seen the first heartbeat, the broker holding the
\* retained messages of the capability
\* the instance in the middle of a session with the broker
SessionStarts(scenario) ==
  /\ fnArgs = NoArgs
  /\ fnResult = NoResult
  /\ fnPc = "idle"
  /\ seg = <<>>
  /\ encoded = <<>>
  /\ decoded = <<>>
  /\ codecPc = "start"
  /\ data = scenario.data
  /\ listeners = <<>>
  /\ flatListeners = <<>>
  /\ call = NoCall
  /\ steps = 0
  /\ publishedMessages = EmptyObj
  /\ publishQueue = <<>>
  /\ processing = FALSE
  /\ retryTimer = 0
  /\ throttled = FALSE
  /\ thrTimer = FALSE
  /\ thrPending = FALSE
  /\ orphanTimer = FALSE
  /\ connected = TRUE
  /\ broker = scenario.broker
  /\ brokerLog = <<>>
  /\ enqLog = <<>>
  /\ publishedPaths = EmptyMap
  /\ subscribedPaths = scenario.subs
  /\ op = NoOp
  /\ rpcHandlers = EmptyMap
  /\ rpcCallbacks = EmptyMap
  /\ mqttSubs = scenario.subs
  /\ net = <<>>
  /\ promises = <<>>
  /\ rpcLog = NoRpc
  /\ heartbeats = 1
  /\ heartbeatWaitersOnce = <<>>
  /\ timers = scenario.timers
  /\ mig = scenario.mig
  /\ hbLog = IF scenario.kind = "migrate"
               THEN [NoHeartbeats EXCEPT
                       !.items = <<[NoItem EXCEPT !.published = TRUE]>>]
               ELSE NoHeartbeats
  /\ pendingSubs = <<>>
  /\ subLog = NoSubs
  /\ receivedTopics = scenario.received
  /\ syncOptions = NoOptions
  /\ onChangeLog = <<>>
  /\ clearing = <<>>
  /\ clearLog = <<>>

ClearInit == \E scenario \in ClearScenarios : SessionStarts(scenario)

\* the instance, its heartbeat state and its mqtt client
Session ==
  [S |-> Instance, hb |-> Hb, mqttSubs |-> mqttSubs, net |-> net,
   receivedTopics |-> receivedTopics, clearing |-> clearing, clearLog |-> clearLog]

SessionBecomes(X) ==
  /\ Becomes(X.S)
  /\ heartbeats' = X.hb.heartbeats
  /\ heartbeatWaitersOnce' = X.hb.heartbeatWaitersOnce
  /\ timers' = X.hb.timers
  /\ mig' = X.hb.mig
  /\ hbLog' = X.hb.log
  /\ mqttSubs' = X.mqttSubs
  /\ net' = X.net
  /\ receivedTopics' = X.receivedTopics
  /\ clearing' = X.clearing
  /\ clearLog' = X.clearLog
  /\ UNCHANGED <<orphanTimer, flatListeners, call, steps>>
  /\ UNCHANGED <<rpcHandlers, rpcCallbacks, promises, rpcLog>>
  /\ UNCHANGED <<pendingSubs, subLog, syncOptions, onChangeLog>>
  /\ UNCHANGED <<codecVars, fnVars>>

\* new MqttSync({mqttClient, migrate, onReady}): migrate(list, ...) has set
\* toGo and asked the broker for one subscription per item
HbInit ==
  /\ seg = <<>>
  /\ encoded = <<>>
  /\ decoded = <<>>
  /\ codecPc = "start"
  /\ fnArgs = NoArgs
  /\ fnResult = NoResult
  /\ fnPc = "idle"
  /\ data = EmptyObj
  /\ listeners = <<>>
  /\ flatListeners = <<>>
  /\ call = NoCall
  /\ steps = 0
  /\ publishedMessages = EmptyObj
  /\ publishQueue = <<>>
  /\ processing = FALSE
  /\ retryTimer = 0
  /\ throttled = FALSE
  /\ thrTimer = FALSE
  /\ thrPending = FALSE
  /\ orphanTimer = FALSE
  /\ connected = TRUE
  /\ broker = EmptyMap
  /\ brokerLog = <<>>
  /\ enqLog = <<>>
  /\ publishedPaths = EmptyMap
  /\ subscribedPaths = {}
  /\ op = NoOp
  /\ rpcHandlers = EmptyMap
  /\ rpcCallbacks = EmptyMap
  /\ mqttSubs = {}
  /\ net = <<>>
  /\ promises = <<>>
  /\ rpcLog = NoRpc
  /\ heartbeats = 0
  /\ heartbeatWaitersOnce = <<>>
  /\ timers = <<>>
  /\ mig \in MigrateOptions
  /\ hbLog = NoHeartbeats
  /\ pendingSubs = <<>>
  /\ subLog = NoSubs
  /\ receivedTopics = <<>>
  /\ syncOptions = NoOptions
  /\ onChangeLog = <<>>
  /\ clearing = <<>>
  /\ clearLog = <<>>

\* a message on the heartbeat topic arrives
Heartbeat == \E H \in {onHeartbeat(Hb)} : HbBecomes(H)

\* the timer of a waitForHeartbeatOnce fires
TimerFires ==
  /\ timers # <<>>
  /\ \E H \in {[Hb EXCEPT !.timers = Tail(@),
                            !.heartbeatWaitersOnce = Append(@, Head(timers)),
                            !.log.last = [kind |-> "timer", woke |-> FALSE]]} :
       HbBecomes(H)

\* the broker answers the subscription of one item of the migrate list
SubscribeCallback(i, err) ==
  /\ i \in 1..Len(mig.subscribing)
  /\ LET item == mig.subscribing[i]
         rest == SubSeq(mig.subscribing, 1, i - 1) \o
                 SubSeq(mig.subscribing, i + 1, Len(mig.subscribing))
         H == [Hb EXCEPT !.mig.subscribing = rest,
                         !.log.last = [kind |-> "subscribed", woke |-> FALSE]]
     IN \E H1 \in {onSubscribed(H, item, err)} : HbBecomes(H1)

\* the application calls waitForHeartbeatOnce(callback)
WaitForHeartbeatOnce(nested) ==
  LET id == Cardinality(DOMAIN hbLog.waiters \cap 1..MaxWaiters) + 1
      H == [Hb EXCEPT !.log.last = [kind |-> "wait", woke |-> FALSE]]
  IN /\ id <= MaxWaiters
     /\ \E H1 \in {waitForHeartbeatOnce(H, Cb("waiter", id, nested, FALSE))} :
          HbBecomes(H1)

\* an instance constructed with onReady and any migrate option
ReadyNext ==
  \/ Heartbeat
  \/ TimerFires
  \/ \E i \in 1..MaxItems, err \in BOOLEAN : SubscribeCallback(i, err)

\* heartbeats keep arriving, timers fire, the broker answers subscriptions
ReadyFairness ==
  /\ WF_vars(Heartbeat)
  /\ WF_vars(TimerFires)
  /\ WF_vars(\E i \in 1..MaxItems, err \in BOOLEAN : SubscribeCallback(i, err))

SpecReady == HbInit /\ [][ReadyNext]_vars /\ ReadyFairness

\* an instance whose application registers one-shot waiters
WaiterNext ==
  \/ Heartbeat
  \/ TimerFires
  \/ \E nested \in BOOLEAN : WaitForHeartbeatOnce(nested)

\* heartbeats keep arriving, timers fire
WaiterFairness ==
  /\ WF_vars(Heartbeat)
  /\ WF_vars(TimerFires)

SpecWaiters == Init /\ [][WaiterNext]_vars /\ WaiterFairness

\* mqttSync.clear(prefixes, callback, {filter})
ClearCall(prefixes, options) ==
  /\ mig.opt = "none"
  /\ Len(clearLog) < MaxClears
  /\ \E X \in {clearCall(Session, prefixes, options)} : SessionBecomes(X)
  /\ op' = OpRecord("clearCall", <<prefixes, options>>)

\* the broker publishes its uptime
BrokerHeartbeat ==
  /\ steps < MaxBeats
  /\ steps' = steps + 1
  /\ net' = Append(net, [topic |-> HEARTBEAT_TOPIC, json |-> Null])
  /\ UNCHANGED <<rpcHandlers, rpcCallbacks, mqttSubs, promises, rpcLog>>
  /\ UNCHANGED <<data, listeners, flatListeners, call>>
  /\ UNCHANGED <<clientVars, codecVars, fnVars, syncVars, hbVars>>

\* the oldest message in flight is a heartbeat and arrives
ReceiveHeartbeat ==
  /\ net # <<>>
  /\ Head(net).topic = HEARTBEAT_TOPIC
  /\ \E X \in {onHeartbeatMessage([Session EXCEPT !.net = Tail(@)])} : SessionBecomes(X)
  /\ op' = OpRecord("heartbeat", HEARTBEAT_TOPIC)

\* the oldest message in flight is a retained message and arrives
ReceiveRetained ==
  /\ net # <<>>
  /\ Head(net).topic # HEARTBEAT_TOPIC
  /\ \E X \in {onOtherMessage([Session EXCEPT !.net = Tail(@)],
                                Head(net).topic, Head(net).json)} : SessionBecomes(X)
  /\ op' = OpRecord("received", Head(net).topic)

\* clear, called by the application or by migrate, with the broker sending
\* heartbeats and the retained messages of new subscriptions
ClearNext ==
  \/ \E prefixes \in ClearPrefixLists, options \in ClearOptions :
       ClearCall(prefixes, options)
  \/ BrokerHeartbeat
  \/ ReceiveHeartbeat
  \/ ReceiveRetained
  \/ TimerFires

SpecClear == ClearInit /\ [][ClearNext]_vars


-----------------------------------------------------------------------------
(* Migration of one item: merge of the versions, publication *)

MigrateInit ==
  /\ fnArgs \in MigrateInputs
  /\ fnResult = NoResult
  /\ fnPc = "start"
  /\ Constructed

\* mergeVersions(value, suffix, {maxVersion: newVersion})
MergeVersions ==
  /\ fnPc = "start" /\ fnArgs.fn = "migrate"
  /\ fnResult' = [fn |-> "merged",
                  merged |-> mergeVersions(
                               _get(fnArgs.doc, topicToPath(migratePrefix(fnArgs.item.topic))),
                               fnArgs.keys, migrateSuffix(fnArgs.item.topic),
                               fnArgs.item.newVersion)]
  /\ fnPc' = "merged"
  /\ UNCHANGED fnArgs
  /\ UNCHANGED <<clientVars, codecVars, cacheVars, syncVars, rpcVars, hbVars>>

\* the first heartbeat callback of the item: merge, transform, publish
MigratePublish ==
  /\ fnPc = "merged" /\ fnArgs.fn = "migrate"
  /\ fnResult' = [fn |-> "migrate",
                  published |-> migratePublish(fnArgs.doc, fnArgs.keys, fnArgs.item)]
  /\ fnPc' = "done"
  /\ UNCHANGED fnArgs
  /\ UNCHANGED <<clientVars, codecVars, cacheVars, syncVars, rpcVars, hbVars>>

MigrateNext == MergeVersions \/ MigratePublish
SpecMigrate == MigrateInit /\ [][MigrateNext]_vars

----------------------------------------------------------------------------
(* Properties of the publication queue *)

Max(S) == CHOOSE x \in S : \A y \in S : y <= x
Min(S) == CHOOSE x \in S : \A y \in S : x <= y

\* the positions of brokerLog at which topic t was published
PubIdx(t) == {k \in 1..Len(brokerLog) : brokerLog[k][1] = t}
lastPub(t) == IF PubIdx(t) = {} THEN 0 ELSE Max(PubIdx(t))
EnqIdx(t) == {i \in 1..Len(enqLog) : enqLog[i].topic = t}
EnqueuedTopics == {enqLog[i].topic : i \in 1..Len(enqLog)}

\* the _enqueue calls of t that no publication has served yet
pendingEnqs(t) == {i \in EnqIdx(t) : enqLog[i].sent >= lastPub(t)}

\* the _enqueue calls that the k-th publication serves: those of its topic
\* made since the previous publication of the topic
enqsOf(k) ==
  LET t == brokerLog[k][1]
      prevPub == Max({0} \cup {j \in PubIdx(t) : j < k})
  IN {i \in EnqIdx(t) : prevPub <= enqLog[i].sent /\ enqLog[i].sent < k}

\* the pending topics in the order of their first pending _enqueue, each with
\* the value of its last _enqueue
RECURSIVE inFirstEnqueueOrder(_)
inFirstEnqueueOrder(topics) ==
  IF topics = {} THEN <<>>
  ELSE LET t == CHOOSE x \in topics :
                  \A y \in topics : Min(pendingEnqs(x)) <= Min(pendingEnqs(y))
       IN << <<t, enqLog[Max(pendingEnqs(t))].value>> >>
          \o inFirstEnqueueOrder(topics \ {t})

\* C2: per topic the broker never receives an older value after a newer one
\* (the values of the _enqueue calls are numbered in call order); once the
\* topic is no longer pending, the last value the broker received for it is
\* the last one enqueued; and a value that was still pending when the next
\* value of its topic was enqueued is never published.
C2_NewestWins ==
  /\ \A k, l \in 1..Len(brokerLog) :
       k < l /\ brokerLog[k][1] = brokerLog[l][1] => brokerLog[k][2].v < brokerLog[l][2].v
  /\ \A t \in EnqueuedTopics :
       pendingEnqs(t) = {} =>
         brokerLog[lastPub(t)][2] = enqLog[Max(EnqIdx(t))].value
  /\ \A i, j \in 1..Len(enqLog) :
       (/\ i < j
        /\ enqLog[i].topic = enqLog[j].topic
        /\ \A k \in 1..enqLog[j].sent : brokerLog[k] # <<enqLog[i].topic, enqLog[i].value>>)
       => \A k \in 1..Len(brokerLog) : brokerLog[k] # <<enqLog[i].topic, enqLog[i].value>>

\* a topic was enqueued twice while pending and the second value was published
C2_Witness ==
  \E i, j \in 1..Len(enqLog) :
    /\ i < j
    /\ enqLog[i].topic = enqLog[j].topic
    /\ \A k \in 1..Len(brokerLog) : brokerLog[k] # <<enqLog[i].topic, enqLog[i].value>>
    /\ \E k \in 1..Len(brokerLog) : brokerLog[k] = <<enqLog[j].topic, enqLog[j].value>>

\* C3: the queue holds the pending topics in the order of their first pending
\* _enqueue, a re-enqueued topic keeping its position and taking the new
\* value; and the publications reach the broker in the order in which their
\* topics entered the queue.
C3_InsertionOrder ==
  /\ publishQueue = inFirstEnqueueOrder({t \in EnqueuedTopics : pendingEnqs(t) # {}})
  /\ \A k, l \in 1..Len(brokerLog) : k < l => Min(enqsOf(k)) < Min(enqsOf(l))

\* while the queue was held back, topic t was enqueued, then topic u, then t
\* again; the broker has received the second value of t, and u after it
C3_Witness ==
  \E k, l \in 1..Len(brokerLog) :
    /\ k < l
    /\ brokerLog[k][1] # brokerLog[l][1]
    /\ \E i1, i3 \in enqsOf(k), i2 \in enqsOf(l) :
         /\ i1 < i2
         /\ i2 < i3
         /\ brokerLog[k][2] = enqLog[i3].value

----------------------------------------------------------------------------
(* Properties of the atomic <-> flat transitions *)

IsPrefix(a, p) == Len(a) <= Len(p) /\ SubSeq(p, 1, Len(a)) = a
IsProperPrefix(a, p) == Len(a) < Len(p) /\ IsPrefix(a, p)

\* the paths at which the mirror records a retained value
RECURSIVE retainedPaths(_, _)
retainedPaths(node, prefix) ==
  IF ~isObject(node) THEN {}
  ELSE (IF specialKey \in DOMAIN node.m THEN {prefix} ELSE {})
       \cup UNION {retainedPaths(node.m[k], Append(prefix, k)) :
                     k \in DOMAIN node.m \ {specialKey}}

Range(f) == {f[i] : i \in DOMAIN f}

\* the retained messages of the broker, flattened
flatBroker ==
  UNION {IF isObject(broker[t])
         THEN {<<t \o e[1], e[2]>> : e \in Range(toFlatObject(broker[t]))}
         ELSE {<<t, broker[t]>>} : t \in DOMAIN broker}

\* the _enqueue calls and the publications of the last operation
opEnqueues == SubSeq(enqLog, op.enqFrom + 1, Len(enqLog))
opSent == SubSeq(brokerLog, op.sentFrom + 1, Len(brokerLog))

\* C1: with the publication registered before the first write, on an
\* instance whose queue was never held back, once the queue is empty the
\* flattened retained messages equal the flattened cache.
C1_RetainedEqualsCache ==
  (/\ Len(listeners) > 0
   /\ ~op.unsynced
   /\ ~op.everHeld
   /\ connected
   /\ Len(publishQueue) = 0)
  => flatBroker = Range(toFlatObject(data))

\* C4: when a write stores a subdocument at p while the mirror records
\* retained values at descendants of p, the clears issued to topics that are
\* not ancestors of p go to exactly the topics of these descendants, and
\* every clear is enqueued before the new value at p.
C4_FlatToAtomic ==
  LET p == op.arg[1]
      descendants == {q \in retainedPaths(op.mirrorBefore, <<>>) : IsProperPrefix(p, q)}
      clears == {i \in 1..Len(opEnqueues) : isNullish(opEnqueues[i].value)}
  IN (/\ op.kind = "write"
      /\ isObject(op.arg[2])
      /\ Len(opEnqueues) > 0
      /\ descendants # {})
     => /\ {opEnqueues[i].topic : i \in clears}
             \ {pathToTopic(a) : a \in {SubSeq(p, 1, n) : n \in 0..Len(p)}}
           = {pathToTopic(q) : q \in descendants}
        /\ opEnqueues[Len(opEnqueues)].topic = pathToTopic(p)
        /\ opEnqueues[Len(opEnqueues)].value = op.arg[2]

\* C5: when a write stores a value at p while the mirror records an object
\* as the retained value of a proper ancestor a of p, and the queue drains at
\* once, the broker receives a clear at a, directly followed by one write per
\* leaf of the old value, and the new value at p comes last.
C5_AtomicToFlat ==
  LET p == op.arg[1]
      atomicAncestors ==
        {a \in retainedPaths(op.mirrorBefore, <<>>) :
           /\ IsProperPrefix(a, p)
           /\ isObject(_get(op.mirrorBefore, Append(a, specialKey)))}
  IN (/\ op.kind = "write"
      /\ ~op.heldBack
      /\ Len(opEnqueues) > 0)
     => \A a \in atomicAncestors :
          LET leaves == toFlatObject(_get(op.mirrorBefore, Append(a, specialKey)))
          IN /\ \E c \in 1..Len(opSent) :
                  /\ opSent[c] = <<pathToTopic(a), Null>>
                  /\ c + Len(leaves) < Len(opSent)
                  /\ \A i \in 1..Len(leaves) :
                       opSent[c + i] = <<pathToTopic(a) \o leaves[i][1], leaves[i][2]>>
             /\ opSent[Len(opSent)] = <<pathToTopic(p), op.arg[2]>>

----------------------------------------------------------------------------
(* Properties of the inbound messages *)

\* C6: processing an inbound sync message enqueues no publication.
C6_NoEcho == op.kind = "message" => Len(enqLog) = op.enqFrom

----------------------------------------------------------------------------
(* Properties of the DataCache *)

ProperPrefixes(path) == {SubSeq(path, 1, n) : n \in 1..(Len(path) - 1)}

RECURSIVE hasEmptyNode(_)
hasEmptyNode(v) ==
  /\ isObject(v)
  /\ \/ DOMAIN v.m = {}
     \/ \E k \in DOMAIN v.m : hasEmptyNode(v.m[k])

\* C7: after update(p, v) with v non-null, get(p) returns v; after
\* update(p, null), get(p) returns undefined and no ancestor of p that held
\* children before the removal is left as an empty map.
C7_UpdateThenGet ==
  call.op = "update" =>
    IF ~isNullish(call.value)
    THEN get(data, call.path) = call.value
    ELSE /\ get(data, call.path) = Undef
         /\ \A q \in ProperPrefixes(call.path) :
              ~isEmpty(get(call.before, q)) => get(data, q) # EmptyObj

\* C8: no map with zero children exists anywhere below the root of the
\* document, after any sequence of updates.
C8_NoEmptyInteriorNode ==
  \A k \in DOMAIN data.m : ~hasEmptyNode(data.m[k])

\* a write that the claim calls a no-op: the stored value equals the written
\* one, or null/undefined is written where nothing is stored
IsNoOpWrite ==
  /\ call.op = "update"
  /\ IF isNullish(call.value)
     THEN get(call.before, call.path) = Undef
     ELSE get(call.before, call.path) = call.value

----------------------------------------------------------------------------
(* Properties of the topic codec *)

\* C10: decodeTopicElement(encodeTopicElement(s)) = s for every segment s
\* over the alphabet % / 2 5 F.
C10_RoundTrip == codecPc = "decoded" => decoded = seg

----------------------------------------------------------------------------
(* Properties of the conversions between topics and paths *)

hasWildcard(x) == \E i \in 1..Len(x) : x[i] \in {"+", "*", "#"}

\* C11: a topic with a leading slash, no trailing slash and no wildcard is
\* what pathToTopic makes of its path; a path of non-empty segments without
\* wildcards is what topicToPath makes of its topic.
C11_TopicPathRoundTrip ==
  /\ (/\ fnPc = "done"
      /\ fnArgs.fn = "topicToPath"
      /\ StartsWith(fnArgs.topic, <<"/">>)
      /\ ~EndsWith(fnArgs.topic, <<"/">>)
      /\ ~hasWildcard(fnArgs.topic))
     => fnResult.back = fnArgs.topic
  /\ (/\ fnPc = "done"
      /\ fnArgs.fn = "pathToTopic"
      /\ \A i \in 1..Len(fnArgs.path) :
           Len(fnArgs.path[i]) > 0 /\ ~hasWildcard(fnArgs.path[i]))
     => fnResult.back = fnArgs.path

----------------------------------------------------------------------------
(* Properties of the matchers *)

\* the positions of the selector path that hold a named wildcard
namedAt(sp) == {i \in 1..Len(sp) : StartsWith(sp[i], <<"+">>) /\ Len(sp[i]) > 1}

\* the mapping that binds each named wildcard to the topic's segment at its position
bindingsOf(sp, tp) ==
  Obj([name \in {Tail(sp[i]) : i \in namedAt(sp)} |->
         Str(tp[CHOOSE i \in namedAt(sp) : Tail(sp[i]) = name])])

\* C12: when the topic matches the selector, has a segment for each segment
\* of the selector, and no name occurs twice, topicMatch returns exactly the
\* bindings of the named wildcards, and the listener of subscribePath is
\* called once with the value, the topic, that mapping and the tags.
C12_MatchBindings ==
  LET sp == topicToPath(fnArgs.selector)
      tp == topicToPath(fnArgs.topic)
  IN (/\ fnPc = "delivered"
      /\ truthy(fnResult.matched)
      /\ Len(tp) >= Len(sp)
      /\ \A i, j \in namedAt(sp) : sp[i] = sp[j] => i = j)
     => /\ fnResult.matched = bindingsOf(sp, tp)
        /\ fnResult.calls = << [value |-> fnArgs.value, key |-> fnArgs.topic,
                                matched |-> bindingsOf(sp, tp), tags |-> fnArgs.tags] >>

\* C13: a selector with a `+` or `+NAME` segment at position i and no `#`
\* before it matches only topics that have a segment at position i.
C13_PlusMatchesOneSegment ==
  LET sp == topicToPath(fnArgs.selector)
      tp == topicToPath(fnArgs.topic)
  IN (fnPc = "matched" /\ truthy(fnResult.matched))
     => \A i \in 1..Len(sp) :
          (/\ StartsWith(sp[i], <<"+">>)
           /\ \A j \in 1..(i - 1) : ~StartsWith(sp[j], <<"#">>))
          => Len(tp) >= i

\* the selector with each `*` segment replaced by `+`
starToPlus(selector) ==
  LET parts == Split(selector)
  IN Join([i \in 1..Len(parts) |-> IF parts[i] = <<"*">> THEN <<"+">> ELSE parts[i]])

\* C14: topicMatch, subscribePath, forMatch and filter give for a selector
\* the outcome they give for the selector with each `*` replaced by `+`.
C14_StarLikePlus ==
  LET plus == starToPlus(fnArgs.selector)
  IN fnPc = "done"
     => /\ truthy(fnResult.matched) = truthy(topicMatch(plus, fnArgs.topic))
        /\ Len(fnResult.calls) =
             (IF truthy(topicMatch(plus, fnArgs.topic)) THEN 1 ELSE 0)
        /\ [i \in 1..Len(fnResult.forMatch) |->
              <<fnResult.forMatch[i].path, fnResult.forMatch[i].value>>]
           = LET it == forMatchIterator(MatchDoc, topicToPath(plus), <<>>, EmptyObj)
             IN [i \in 1..Len(it) |-> <<it[i].path, it[i].value>>]
        /\ fnResult.filtered = filter(MatchDoc, topicToPath(plus))

----------------------------------------------------------------------------
(* Properties of the remote procedure calls *)

resultsOf(c) == {i \in 1..Len(rpcLog.results) : rpcLog.results[i].call = c}
outstanding == {c \in 1..Len(rpcLog.calls) : resultsOf(c) = {}}

\* C15: a callback is only invoked with what the handler returned for the
\* args of its own call, and at most once; the outstanding calls wait on
\* pairwise distinct correlation ids; and once every message is delivered
\* and every promise resolved, each call's callback has been invoked.
C15_EachCallResolvedOnce ==
  /\ \A i \in 1..Len(rpcLog.results) :
       LET c == rpcLog.calls[rpcLog.results[i].call]
       IN rpcLog.results[i].value = handlerResult(c.command, c.args)
  /\ \A c \in 1..Len(rpcLog.calls) : Cardinality(resultsOf(c)) <= 1
  /\ \A c1, c2 \in outstanding :
       c1 # c2 => rpcLog.calls[c1].topic # rpcLog.calls[c2].topic
  /\ (Len(net) = 0 /\ Len(promises) = 0) => outstanding = {}

\* C16: when a response has just been handled, rpcCallbacks has no entry for
\* its topic and the client is not subscribed to it; and no callback is ever
\* invoked a second time, whatever arrives later on its topic.
C16_CallbackRemoved ==
  /\ rpcLog.last.kind = "response"
       => /\ rpcLog.last.topic \notin DOMAIN rpcCallbacks
          /\ rpcLog.last.topic \notin mqttSubs
  /\ \A c \in 1..Len(rpcLog.calls) : Cardinality(resultsOf(c)) <= 1

\* a message has arrived on the topic of a delivered response and was ignored
C16_Witness ==
  /\ rpcLog.last.kind = "ignored"
  /\ \E c \in 1..Len(rpcLog.calls) :
       /\ rpcLog.calls[c].topic = rpcLog.last.topic
       /\ Cardinality(resultsOf(c)) = 1

-----------------------------------------------------------------------------
(* Properties of the heartbeats *)

\* C17: in every configuration that supplies onReady (no migrate option, an
\* empty migrate list, a non-empty migrate list), with heartbeats arriving
\* and subscribe callbacks delivered, onReady is eventually invoked, never
\* more than once, and without a migrate option not before the second
\* heartbeat message.
C17_OnReadyExactlyOnce ==
  /\ <>(Len(hbLog.onReady) = 1)
  /\ [](Len(hbLog.onReady) <= 1)
  /\ [](mig.opt = "none" =>
          \A i \in 1..Len(hbLog.onReady) : hbLog.onReady[i] >= 1)

\* the migration items whose subscription the broker denied
deniedItems == {i \in DOMAIN hbLog.items : hbLog.items[i].denied}

\* C22: a migration item whose subscription the broker denies publishes
\* nothing and clears nothing and is counted as complete exactly once;
\* onReady is not invoked before every item has completed, and with the
\* remaining items completing it is eventually invoked.
C22_DeniedItemCompletes ==
  /\ [](\A i \in deniedItems :
          /\ ~hbLog.items[i].published
          /\ ~hbLog.items[i].cleared
          /\ hbLog.items[i].downs = 1)
  /\ [](Len(hbLog.onReady) > 0 /\ mig.opt = "list" =>
          mig.toGo = 0 /\ mig.subscribing = <<>>)
  /\ (deniedItems # {} ~> Len(hbLog.onReady) = 1)

\* one item denied, the other one migrated and cleared, onReady invoked
C22_Witness ==
  /\ deniedItems # {}
  /\ \E i \in DOMAIN hbLog.items : hbLog.items[i].cleared
  /\ Len(hbLog.onReady) = 1

\* the waiters the application registers, and the waiters those register
WaiterIds == 1..(2 * MaxWaiters)
NestedIds == (MaxWaiters + 1)..(2 * MaxWaiters)

waiting(w) == inSeq(timers, w.cb) \/ inSeq(heartbeatWaitersOnce, w.cb)

\* invoked at most once, and until then held by a timer or by the list
keptUntilInvoked(w) ==
  /\ w.count <= 1
  /\ w.count = 0 => waiting(w)
  /\ w.count = 1 => ~waiting(w)

\* every waiter of ids registered so far has been invoked
allInvoked(ids) ==
  \A i \in DOMAIN hbLog.waiters \cap ids : hbLog.waiters[i].count = 1

\* C18: every callback registered with waitForHeartbeatOnce is invoked
\* exactly once, by a heartbeat that arrives after its registration and
\* never by the first heartbeat message the instance receives; after a
\* waking heartbeat the heartbeatWaitersOnce list is empty.
C18_WaitersWokenOnce ==
  /\ [](\A i \in DOMAIN hbLog.waiters :
          LET w == hbLog.waiters[i]
          IN keptUntilInvoked(w) /\ ~w.byFirst /\ ~w.duringOwn)
  /\ [](hbLog.last.kind = "heartbeat" /\ hbLog.last.woke
          => heartbeatWaitersOnce = <<>>)
  /\ []<>allInvoked(WaiterIds)

C18_Witness ==
  /\ hbLog.last.kind = "heartbeat"
  /\ hbLog.last.woke
  /\ \E i \in DOMAIN hbLog.waiters \cap 1..MaxWaiters : hbLog.waiters[i].count = 1
  /\ \E i \in DOMAIN hbLog.waiters \cap 1..MaxWaiters : hbLog.waiters[i].missed = 1

\* C19: a waiter registered from inside a heartbeat waiter
\* callback is not invoked during the heartbeat being processed, is not
\* lost when the list is reset, and is invoked exactly once, on the next
\* heartbeat.
C19_NestedOnNextHeartbeat ==
  \A i \in DOMAIN hbLog.waiters \cap NestedIds :
    LET w == hbLog.waiters[i]
    IN /\ ~w.duringOwn
       /\ keptUntilInvoked(w)
       /\ w.count = 1 => w.early = 0 /\ w.missed = 0

-----------------------------------------------------------------------------
(* Properties of the migration *)

\* deep merge, the later value winning per leaf
RECURSIVE deepMerge(_, _)
deepMerge(a, b) ==
  IF isObject(a) /\ isObject(b)
    THEN Obj([k \in DOMAIN a.m \cup DOMAIN b.m |->
                IF k \notin DOMAIN b.m THEN a.m[k]
                ELSE IF k \notin DOMAIN a.m THEN b.m[k]
                ELSE deepMerge(a.m[k], b.m[k])])
    ELSE b

\* the index of the lowest version among idxs
lowest(keys, idxs) ==
  CHOOSE i \in idxs : \A j \in idxs : versionCompare(keys[i], keys[j]) <= 0

RECURSIVE mergeAscending(_, _, _, _)
mergeAscending(acc, keys, values, idxs) ==
  IF idxs = {} THEN acc
  ELSE LET i == lowest(keys, idxs)
       IN mergeAscending(deepMerge(acc, values[i]), keys, values, idxs \ {i})

\* the values of the versions merged in ascending version order
mergedInOrder(keys, values) ==
  LET first == lowest(keys, DOMAIN keys)
  IN mergeAscending(values[first], keys, values, DOMAIN keys \ {first})

\* C20: for a multi-version retained state under a grounded prefix with
\* every version below newVersion, migrate publishes at
\* <groundedPrefix>/<newVersion>/<suffix> the deep merge of the versions'
\* values at <suffix> in ascending version order (last wins per leaf, an
\* incomplete version ordered as its minimum version), passed through
\* transform if given.
C20_MigrateMerges ==
  fnPc = "done" /\ fnResult.fn = "migrate" =>
    fnResult.published =
      << [topic |-> pathToTopic(capabilityPath \o <<fnArgs.item.newVersion>> \o fnArgs.sub),
          payload |-> applyTransform(fnArgs.item.transform,
                                     mergedInOrder(fnArgs.keys, fnArgs.values))] >>

-----------------------------------------------------------------------------
(* Properties of the drain of the publication queue *)

\* C28: at most one drain of the publication queue is active at any time:
\* over every interleaving of _enqueue calls, throttled triggers,
\* setThrottle/clearThrottle, disconnects and retry timers there is never
\* more than one pending retry timer (a drain loop runs to its end or to a
\* retry timer within one handler), and _processing is true exactly while
\* one exists.
C28_OneDrain ==
  /\ retryTimer <= 1
  /\ processing <=> retryTimer = 1

C28_Witness ==
  /\ retryTimer = 1
  /\ processing
  /\ Len(publishQueue) >= 2
  /\ throttled

\* the payload mqtt.publish sends for a value
payloadOf(value) == IF isNullish(value) THEN Null ELSE clone(value)

\* the enqueued value is still queued, was published after it was enqueued,
\* or was superseded by a later value for its topic
accountedFor(k) ==
  LET e == enqLog[k]
  IN \/ \E i \in 1..Len(publishQueue) : publishQueue[i] = <<e.topic, e.value>>
     \/ \E j \in (e.sent + 1)..Len(brokerLog) : brokerLog[j] = <<e.topic, payloadOf(e.value)>>
     \/ \E l \in (k + 1)..Len(enqLog) : enqLog[l].topic = e.topic

\* what a step of a disconnected client leaves alone
disconnectedStep ==
  ~connected =>
    /\ brokerLog' = brokerLog
    /\ Len(publishQueue') >= Len(publishQueue)
    /\ \A i \in 1..Len(publishQueue) : publishQueue'[i][1] = publishQueue[i][1]
    \* a drain that starts, and a retry that fires, end in a pending retry
    /\ processing \/ processing' => retryTimer' = 1 /\ processing'

\* an entry leaves the queue only in a step of a connected client that
\* publishes it
leavesWhenPublished ==
  \A i \in 1..Len(publishQueue) :
    (\A j \in 1..Len(publishQueue') : publishQueue'[j][1] # publishQueue[i][1])
      => /\ connected
         /\ \E j \in (Len(brokerLog) + 1)..Len(brokerLog') :
              brokerLog'[j][1] = publishQueue[i][1]

\* C29: while the client is disconnected a drain attempt publishes nothing,
\* removes nothing from the queue (the head stays head) and schedules a
\* retry; an entry leaves the queue only directly after its publish was
\* issued on a connected client, so no enqueued value is dropped without
\* having been published or superseded by a newer value for its topic.
C29_NothingDropped ==
  /\ [](\A k \in 1..Len(enqLog) : accountedFor(k))
  /\ [][disconnectedStep /\ leavesWhenPublished]_vars

C29_Witness ==
  /\ ~connected
  /\ retryTimer = 1
  /\ Len(publishQueue) >= 2
  /\ Len(brokerLog) >= 1
  /\ Len(enqLog) > Len(publishQueue) + Len(brokerLog)

-----------------------------------------------------------------------------
(* Properties of publish *)

\* C30: publish(selector, options) returns false and installs no listener
\* when the normalised selector is already registered with equal options; in
\* every other case, atomic or not, it records the options in
\* publishedPaths, installs the publisher listener and returns true.
C30_PublishReturns ==
  op.kind = "publishCall" =>
    LET sel == ensureHashSuffix(op.arg[1])
        options == op.arg[2]
    IN IF sel \in DOMAIN op.pathsBefore /\ op.pathsBefore[sel] = options
       THEN /\ op.returned = False
            /\ listeners = op.listenersBefore
            /\ publishedPaths = op.pathsBefore
       ELSE /\ op.returned = True
            /\ publishedPaths[sel] = options
            /\ listeners = Append(op.listenersBefore,
                             [kind |-> "publish", topic |-> sel, atomic |-> options.atomic])

-----------------------------------------------------------------------------
(* Properties of the parsing of inbound payloads *)

\* C27: a retained inbound message with a malformed (non-JSON) payload on a
\* topic matched by a subscribed or non-atomic published selector is handled
\* as a deletion at that topic: the payload parses to null, the cache entry
\* at the topic is removed, and no exception escapes the message handler.
C27_MalformedIsDeletion ==
  /\ op.kind = "rawMessage"
  /\ op.arg[2] = Malformed
  /\ op.arg[3]
  /\ isPublished(Instance, op.arg[1]) \/ isSubscribed(Instance, op.arg[1])
  => /\ ~op.threw
     /\ _get(data, topicToPath(op.arg[1])) = Undef

-----------------------------------------------------------------------------
(* Properties of subscribe and unsubscribe *)

hashSuffix == <<"/", "#">>
lastCallback(log) == log.callbacks[Len(log.callbacks)]

\* a step in which the broker answers a request of subscribe
answeredAsGranted ==
  op'.kind = "subscribeAnswer" =>
    LET topic == op'.arg[1]
        granted == op'.arg[2]
    IN /\ topic = Head(pendingSubs)
       /\ pendingSubs' = Tail(pendingSubs)
       /\ subLog'.sent = subLog.sent
       /\ Len(subLog'.callbacks) = Len(subLog.callbacks) + 1
       /\ IF granted.t = "grant" /\ granted.qos < 128
            THEN /\ subscribedPaths' = subscribedPaths \cup {topic}
                 /\ lastCallback(subLog') = [topic |-> topic, arg |-> "null"]
            ELSE /\ subscribedPaths' = subscribedPaths
                 /\ lastCallback(subLog') = [topic |-> topic, arg |-> "error"]

\* a message no subscribed selector matches leaves the cache as it is
unsubscribedIgnored ==
  op'.kind = "deliver" /\ ~isSubscribed(Instance, op'.arg[1]) => data' = data

\* C25: subscribe(selector, cb) normalises the selector to end in '/#'; the
\* selector enters subscribedPaths only when the broker grants it with a
\* QoS below 128, and then cb(null) is called; when the grant is missing or
\* has QoS 128 or above, cb receives an error message, subscribedPaths is
\* unchanged, no further request is sent, and a message matching only that
\* selector is not written to the cache.
C25_SubscribeGrant ==
  /\ [](\A t \in subscribedPaths \cup Range(pendingSubs) : EndsWith(t, hashSuffix))
  /\ [](subLog.sent <= subLog.asked)
  /\ [][/\ op'.kind = "subscribeCall" /\ pendingSubs' # pendingSubs =>
             pendingSubs' = Append(pendingSubs, ensureHashSuffix(op'.arg))
        /\ ~(subscribedPaths' \subseteq subscribedPaths) =>
             op'.kind = "subscribeAnswer"
        /\ answeredAsGranted
        /\ unsubscribedIgnored]_vars

\* the broker has denied '/a/#', a message on '/a/b' has arrived since, and
\* the broker has granted another selector
C25_Witness ==
  /\ op.kind = "deliver"
  /\ op.arg[1] = <<"/", "a", "/", "b">>
  /\ \E i \in 1..Len(subLog.callbacks) :
       subLog.callbacks[i] = [topic |-> <<"/", "a", "/", "#">>, arg |-> "error"]
  /\ \E i \in 1..Len(subLog.callbacks) : subLog.callbacks[i].arg = "null"
  /\ <<"/", "a", "/", "#">> \notin subscribedPaths

\* C26: after unsubscribe(selector) with no later subscribe(selector), also
\* when it is called between subscribe(selector) and the answer of the
\* broker, the selector is not in subscribedPaths, the client holds no
\* broker subscription for it, and a message matching only that selector
\* does not change the cache.
C26_UnsubscribeHolds ==
  /\ [](\A t \in DOMAIN subLog.lastCall :
          subLog.lastCall[t] = "unsubscribe" =>
            t \notin subscribedPaths /\ t \notin mqttSubs)
  /\ [][/\ op'.kind = "deliver"
        /\ \A t \in DOMAIN subLog.lastCall :
             truthy(topicMatch(t, op'.arg[1])) => subLog.lastCall[t] = "unsubscribe"
        => data' = data]_vars

-----------------------------------------------------------------------------
(* Properties of clear *)

\* the topic lies under prefix/# for one of the prefixes
underSome(prefixes, topic) ==
  \E i \in DOMAIN prefixes : truthy(topicMatch(prefixes[i] \o slashHash, topic))

\* the topics a call of clear is to delete: known at the call or arrived
\* before its heartbeat, under a prefix, passing the filter
toBeCleared(L) ==
  {t \in Range(L.receivedBefore) \cup Range(L.arrived) :
     underSome(L.prefixes, t) /\ passes(L.options, t)}

\* C23: clear(prefixes, cb, {filter}) publishes a zero-length retained
\* payload only once its heartbeat has fired, only to the topics under
\* prefix/# for one of the prefixes that pass the filter, those already in
\* receivedTopics and those arriving before that heartbeat, to each of them
\* exactly once, and cb receives the number of topics cleared.
C23_ClearPublishes ==
  \A i \in DOMAIN clearLog :
    LET L == clearLog[i]
    IN /\ ~L.done => i \in DOMAIN clearing /\ L.published = <<>>
       /\ L.done =>
            /\ Range(L.published) = toBeCleared(L)
            /\ Len(L.published) = Cardinality(toBeCleared(L))
            /\ L.count = Cardinality(toBeCleared(L))
            /\ \A k \in 1..Len(L.published) :
                 \E n \in (L.sentBefore + 1)..Len(brokerLog) :
                   brokerLog[n] = <<L.published[k], Null>>

\* C24: once the heartbeat of a call of clear has fired, its message
\* listener is removed and the broker subscriptions it made are given up:
\* the client holds the subscriptions it held before the call.
C24_ClearLeavesNoResidue ==
  \A i \in DOMAIN clearLog :
    clearLog[i].done =>
      /\ i \notin DOMAIN clearing
      /\ clearLog[i].subsAfter = clearLog[i].subsBefore

\* the version of a topic of the capability
versionOf(topic) == topicToPath(topic)[5]

\* the topic lies under <prefix>/<v>/<suffix> of the item
underVersion(item, v, topic) ==
  truthy(topicMatch(
    ensureHashSuffix(resolveDoubleSlashes(
      migratePrefix(item.topic) \o <<"/">> \o v \o <<"/">> \o migrateSuffix(item.topic))),
    topic))

\* C21: when the clean-up of a migration item is done, every retained topic
\* under <prefix>/<v>/<suffix> of an observed version v older than newVersion
\* has been cleared on the broker, and no retained topic of a version at or
\* above newVersion has been cleared or altered.
C21_OldVersionsCleared ==
  \A i \in DOMAIN clearLog :
    mig.opt = "list" /\ clearLog[i].done =>
      LET item == mig.cleanup[1]
          before == clearLog[i].brokerBefore
      IN \A t \in DOMAIN before :
           /\ \A k \in DOMAIN item.all :
                /\ versionCompare(item.all[k], item.newVersion) < 0
                /\ underVersion(item, item.all[k], t)
                => t \notin DOMAIN broker
           /\ versionCompare(versionOf(t), item.newVersion) >= 0
                => t \in DOMAIN broker /\ broker[t] = before[t]

-----------------------------------------------------------------------------
(* toFlatObject and the flat change set of DataCache.update, on documents
   that hold arrays *)

FlatLeaves ==
  {Prim(1), Prim(2), Arr(<<>>), Arr(<<Prim(1), Prim(2)>>),
   Obj(kC :> Prim(3)), Obj(kC :> Arr(<<Prim(1)>>))}
FlatInputs ==
  {Obj(m) : m \in UNION {[K -> FlatLeaves] : K \in SUBSET {kA, kB}}}
FlatPaths == {<<kA>>, <<kB>>, <<kA, kC>>, <<kB, kC>>}

FlatInit ==
  /\ fnArgs \in {[fn |-> "toFlatObject", obj |-> o] : o \in FlatInputs}
                \cup {[fn |-> "update", path |-> p, value |-> v] :
                        p \in {<<kA>>, <<kA, kB>>}, v \in FlatLeaves}
  /\ fnResult = NoResult
  /\ fnPc = "start"
  /\ Constructed

\* toFlatObject(obj)
Flatten ==
  /\ fnPc = "start" /\ fnArgs.fn = "toFlatObject"
  /\ fnResult' = [fn |-> "toFlatObject", flat |-> toFlatObject(fnArgs.obj)]
  /\ fnPc' = "done"
  /\ UNCHANGED fnArgs
  /\ UNCHANGED <<clientVars, codecVars, cacheVars, syncVars, rpcVars, hbVars>>

\* new DataCache().updateFromArray(path, value): the flat changes it returns
FlatUpdate ==
  /\ fnPc = "start" /\ fnArgs.fn = "update"
  /\ fnResult' = [fn |-> "update",
                  flat |-> updateFromArray(EmptyObj, fnArgs.path, fnArgs.value).flatChanges]
  /\ fnPc' = "done"
  /\ UNCHANGED fnArgs
  /\ UNCHANGED <<clientVars, codecVars, cacheVars, syncVars, rpcVars, hbVars>>

FlatNext == Flatten \/ FlatUpdate
SpecFlat == FlatInit /\ [][FlatNext]_vars

holds(flat, entry) == \E i \in 1..Len(flat) : flat[i] = entry

\* C32: toFlatObject keeps every array whole: an array of the document is one
\* entry of the flat object under its '/'-joined path, and the flat changes of
\* an update whose value is an array are that one entry
C32_ArraysAreLeaves ==
  /\ fnResult.fn = "toFlatObject" =>
       \A path \in FlatPaths :
         isArray(_get(fnArgs.obj, path)) =>
           holds(fnResult.flat, <<pathToTopic(path), _get(fnArgs.obj, path)>>)
  /\ fnResult.fn = "update" /\ isArray(fnArgs.value) =>
       fnResult.flat = << <<pathToTopic(fnArgs.path), fnArgs.value>> >>

-----------------------------------------------------------------------------
(* The message handler as a whole: RPC dispatch, then the sync branches *)

MaxInbound == 2      \* inbound messages in a run of the message handler
MaxSelectors == 1    \* publications, and subscriptions, in a run of the message handler

World ==
  [S |-> Instance, R |-> RpcInstance, options |-> syncOptions,
   onChange |-> onChangeLog, topic |-> <<>>, branch |-> "none"]

\* lines 360-364: the topic without its first sliceTopic segments
logicalTopic(o, topic0) ==
  IF o.sliceTopic > 0
  THEN pathToTopic(SubSeq(topicToPath(topic0), o.sliceTopic + 1, Len(topicToPath(topic0))))
  ELSE topic0

\* the two sync branches of the handler: the published branch updates mirror
\* and cache, the subscribed branch updates the cache and reports the changes,
\* onChange && Object.keys(changes).length > 0 && onChange(changes)
synced(at, S, published, changes) ==
  [at EXCEPT !.S = S,
             !.onChange = IF ~published /\ Len(changes) > 0 THEN Append(@, changes) ELSE @,
             !.branch = IF published THEN "published" ELSE "subscribed"]

\* the handler trying the sync branches before the RPC registries
dispatch_syncFirst(W, json, retain) ==
  IF (retain \/ W.options.ignoreRetain)
       /\ (isPublished(W.S, W.topic) \/ isSubscribed(W.S, W.topic))
  THEN synced(W, onMessage(W.S, W.topic, json, TRUE), isPublished(W.S, W.topic),
               updateFromArrayParsed(W.S.data, topicToPath(W.topic), json).flatChanges)
  ELSE IF W.topic \in DOMAIN W.R.rpcHandlers
  THEN [W EXCEPT !.R = handleRPCRequest(@, W.topic, json), !.branch = "request"]
  ELSE IF W.topic \in DOMAIN W.R.rpcCallbacks
  THEN [W EXCEPT !.R = handleRPCResponse(@, W.topic, json), !.branch = "response"]
  ELSE [W EXCEPT !.branch = "ignored"]

\* the branches of the else part of the 'message' handler (lines 366-392) for
\* the logical topic W.topic
dispatch(W, json, retain) ==
  IF W.topic \in DOMAIN W.R.rpcHandlers
  THEN [W EXCEPT !.R = handleRPCRequest(@, W.topic, json), !.branch = "request"]
  ELSE IF W.topic \in DOMAIN W.R.rpcCallbacks
  THEN [W EXCEPT !.R = handleRPCResponse(@, W.topic, json), !.branch = "response"]
  ELSE IF ~(retain \/ W.options.ignoreRetain)
  THEN [W EXCEPT !.branch = "ignored"]
  ELSE IF isPublished(W.S, W.topic) \/ isSubscribed(W.S, W.topic)
  THEN synced(W, onMessage(W.S, W.topic, json, TRUE), isPublished(W.S, W.topic),
               updateFromArrayParsed(W.S.data, topicToPath(W.topic), json).flatChanges)
  ELSE [W EXCEPT !.branch = "ignored"]

\* the else branch of the 'message' handler (lines 357-392), json being
\* mqttParsePayload(payload): the instance after it, the calls of onChange,
\* the logical topic and the branch taken
onInbound(W, topic0, json, retain) ==
  dispatch([W EXCEPT !.topic = logicalTopic(W.options, topic0)], json, retain)

InboundSelectors == {<<"/", "a", "/", "b">>, <<"/", "c">>}
kRequest == <<"/", "c">> \o slashRequest
kResponse == <<"/", "c">> \o slashResponse \o <<"/", "z">>
\* the messages that arrive: <<topic, mqttParsePayload(payload)>>
InboundMessages ==
  ({<<"/", "a">>, <<"/", "a", "/", "b">>} \X {Null, Prim(1), EmptyObj, Obj(kB :> Prim(2))})
  \cup ({kRequest, <<"/", "x">> \o kRequest} \X {Obj(kId :> Str(<<"z">>) @@ kArgs :> Prim(1))})
  \cup {<<kResponse, Obj(kId :> Str(<<"z">>) @@ kResult :> Prim(1))>>}
SyncOptions ==
  {NoOptions, [ignoreRetain |-> TRUE, sliceTopic |-> 0], [ignoreRetain |-> FALSE, sliceTopic |-> 1]}

\* new MqttSync({mqttClient, onChange, ignoreRetain, sliceTopic})
InboundInit ==
  \E o \in SyncOptions :
    /\ fnArgs = [fn |-> "options", options |-> o]
    /\ fnResult = NoResult
    /\ fnPc = "idle"
    /\ ConstructedWith(o)

\* MqttSync.publish(selector, {atomic})
PublishSelector(sel, atomic) ==
  /\ Len(listeners) < MaxPublish
  /\ publish(Instance, sel, [atomic |-> atomic]) # Instance
  /\ Becomes(publish(Instance, sel, [atomic |-> atomic]))
  /\ op' = OpRecord("publish", atomic)
  /\ UNCHANGED <<orphanTimer, flatListeners, call, steps>>
  /\ UNCHANGED <<clientVars, codecVars, fnVars, rpcVars, hbVars>>

\* MqttSync.subscribe(selector) and the grant of the broker
SubscribeSelector(sel) ==
  /\ Cardinality(subscribedPaths) < MaxSelectors
  /\ ensureHashSuffix(sel) \notin subscribedPaths
  /\ subscribedPaths' = subscribedPaths \cup {ensureHashSuffix(sel)}
  /\ op' = OpRecord("subscribe", sel)
  /\ UNCHANGED <<data, listeners, publishedMessages, publishQueue, processing,
                 retryTimer, throttled, thrTimer, thrPending, orphanTimer, connected,
                 broker, brokerLog, enqLog, publishedPaths>>
  /\ UNCHANGED <<flatListeners, call, steps>>
  /\ UNCHANGED <<clientVars, codecVars, fnVars, rpcVars, hbVars>>

\* a message that is not a heartbeat arrives
Inbound(topic, json, retain) ==
  /\ steps < MaxInbound
  \* a request carries the id of its call
  /\ logicalTopic(syncOptions, topic) \in DOMAIN rpcHandlers =>
       isObject(json) /\ kId \in DOMAIN json.m
  /\ steps' = steps + 1
  /\ \E W \in {onInbound(World, topic, json, retain)} :
       /\ Becomes(W.S)
       /\ RpcBecomes(W.R)
       /\ onChangeLog' = W.onChange
       /\ op' = [topic |-> W.topic, branch |-> W.branch]
                  @@ OpRecord("inbound", <<topic, json, retain>>)
  /\ receivedTopics' = setAdd(receivedTopics, topic)
  /\ UNCHANGED <<pendingSubs, subLog, clearing, clearLog, syncOptions>>
  /\ UNCHANGED <<orphanTimer, flatListeners, call>>
  /\ UNCHANGED <<codecVars, fnVars, hbVars>>

InboundNext ==
  \/ \E sel \in InboundSelectors, atomic \in BOOLEAN :
       Len(listeners) < MaxSelectors /\ PublishSelector(sel, atomic)
  \/ \E sel \in InboundSelectors : SubscribeSelector(sel)
  \/ Register(<<"/", "c">>, FALSE)
  \/ rpcLog.calls = <<>> /\ Call(<<"/", "c">>, Prim(1), <<"z">>)
  \/ \E m \in InboundMessages, retain \in BOOLEAN : Inbound(m[1], m[2], retain)

SpecInbound == InboundInit /\ [][InboundNext]_vars

-----------------------------------------------------------------------------
(* Properties of the message handler *)

\* a step of the message handler
inboundStep == steps' = steps + 1 /\ op'.kind = "inbound"

\* the selectors the broker would deliver the topic for
matchesSome(sels, topic) == \E sel \in sels : brokerSends(sel, topic)
nonAtomic == {sel \in DOMAIN publishedPaths : ~publishedPaths[sel].atomic}

\* C31: a message without RPC handler and callback at its topic that is not
\* retained (ignoreRetain being false), or that is retained on a topic no
\* subscribed and no non-atomic published selector matches, changes nothing
\* but receivedTopics: cache, mirror, queue and registries stay as they are
\* and onChange is not called
C31_IgnoredChangesNothing ==
  [][(/\ inboundStep
      /\ op'.topic \notin (DOMAIN rpcHandlers \cup DOMAIN rpcCallbacks)
      /\ \/ ~syncOptions.ignoreRetain /\ ~op'.arg[3]
         \/ /\ op'.arg[3]
            /\ ~matchesSome(subscribedPaths, op'.topic)
            /\ ~matchesSome(nonAtomic, op'.topic))
     => UNCHANGED <<data, publishedMessages, publishQueue, rpcHandlers, rpcCallbacks,
                    onChangeLog>>]_vars

\* C35: a message whose logical topic has an RPC request handler goes to
\* that handler only, and otherwise one whose topic has an RPC response
\* callback goes to that callback only, whatever the retain flag and the
\* selectors that match the topic: the cache and the mirror are not written
\* and onChange is not called
C35_RpcDispatchOnly ==
  [][inboundStep =>
       /\ op'.topic \in DOMAIN rpcHandlers =>
            /\ op'.branch = "request"
            /\ UNCHANGED <<data, publishedMessages, onChangeLog, rpcCallbacks>>
            /\ rpcLog'.results = rpcLog.results
       /\ op'.topic \notin DOMAIN rpcHandlers /\ op'.topic \in DOMAIN rpcCallbacks =>
            /\ op'.branch = "response"
            /\ UNCHANGED <<data, publishedMessages, onChangeLog, net, promises>>
            /\ Len(rpcLog'.results) = Len(rpcLog.results) + 1]_vars

\* a retained request has arrived on a topic that a subscribed or published
\* selector matches as well
C35_Witness ==
  /\ op.kind = "inbound" /\ op.branch = "request" /\ op.arg[3]
  /\ matchesSome(subscribedPaths \cup nonAtomic, op.topic)

\* C40: for a retained message on a subscribed topic onChange is called
\* exactly when the message changes the cache, an empty map as value included
C40_OnChangeIffChanged ==
  [][inboundStep /\ op'.branch = "subscribed" =>
       (onChangeLog' # onChangeLog <=> data' # data)]_vars

-----------------------------------------------------------------------------
(* The mirror of _enqueue: values of every kind on overlapping topics *)

MaxMirror == 3       \* _enqueue calls in a run of the mirror
MirrorTopics == {<<"/", "a">>, <<"/", "a", "/", "b">>}
MirrorValues == {Null, Prim(1), EmptyObj, Obj(kB :> Prim(1))}

\* _enqueue(topic, value)
EnqueueValue(topic, value) ==
  /\ steps < MaxMirror
  /\ steps' = steps + 1
  /\ Becomes(_enqueue(Instance, topic, value))
  /\ op' = OpRecord("enqueueValue", <<topic, value>>)
  /\ UNCHANGED <<orphanTimer, flatListeners, call>>
  /\ UNCHANGED <<clientVars, codecVars, fnVars, rpcVars, hbVars>>

MirrorNext ==
  \/ \E t \in MirrorTopics, v \in MirrorValues : EnqueueValue(t, v)
  \/ Disconnect
  \/ Reconnect
  \/ RetryTimer
  \/ SetThrottle
  \/ ClearThrottle
  \/ ThrottleTimer
  \/ OrphanTimer

SpecMirror == Init /\ [][MirrorNext]_vars

\* publishedMessages at [...path(topic), '$_']
mirrorAt(topic) == _get(publishedMessages, Append(topicToPath(topic), specialKey))

\* C33: once _enqueue(T, V) has returned, whether or not the client is
\* connected and the queue throttled, publishedMessages holds a deep copy of
\* V at [...path(T), '$_'], and no entry there when V is null
C33_MirrorHoldsEnqueued ==
  op.kind = "enqueueValue" =>
    mirrorAt(op.arg[1]) = (IF isNullish(op.arg[2]) THEN Undef ELSE clone(op.arg[2]))

\* a map has been enqueued while the client was disconnected and is still in
\* the queue
C33_Witness ==
  /\ op.kind = "enqueueValue" /\ isObject(op.arg[2])
  /\ ~connected /\ Len(publishQueue) > 0
  /\ mirrorAt(op.arg[1]) = clone(op.arg[2])

-----------------------------------------------------------------------------
(* The queue under fair timers *)

MaxDrain == 3        \* _enqueue calls in a run under fair timers
DrainTopics == {<<"/", "a">>, <<"/", "b">>}

DrainNext ==
  \/ \E t \in DrainTopics : steps < MaxDrain /\ Enqueue(t)
  \/ Disconnect
  \/ Reconnect
  \/ RetryTimer
  \/ SetThrottle
  \/ ClearThrottle
  \/ ThrottleTimer
  \/ OrphanTimer

\* the timers of setTimeout and of _.throttle fire
DrainFairness ==
  /\ WF_vars(RetryTimer)
  /\ WF_vars(ThrottleTimer)
  /\ WF_vars(OrphanTimer)

SpecDrain == Init /\ [][DrainNext]_vars /\ DrainFairness

drained ==
  /\ Len(publishQueue) = 0
  /\ ~processing
  /\ \A k \in 1..Len(enqLog) : accountedFor(k)

\* C34: if the client stays connected from some point on, the timers firing, every
\* queue entry is published, the queue empties and _processing is false again,
\* with throttling set, cleared or never set, and for entries enqueued while
\* disconnected
C34_QueueDrains == <>[]connected => []<>drained

\* the queue has drained after an entry had stayed in it while another topic
\* was enqueued
C34_Witness ==
  /\ drained /\ connected
  /\ \E k \in 1..(Len(enqLog) - 1) :
       /\ enqLog[k + 1].sent = enqLog[k].sent
       /\ enqLog[k + 1].topic # enqLog[k].topic

-----------------------------------------------------------------------------
(* Local writes under a selector published in one mode and then the other *)

MaxModeWrites == 2   \* local writes in a run of the publication modes
ModeSelector == <<"/", "a", "/", "b">>
\* writes above, at and below the depth of the selector
ModeWrites ==
  {<<<<kA>>, Obj(kB :> Prim(1))>>,
   <<<<kA>>, Prim(3)>>,
   <<<<kA, kB>>, Prim(1)>>,
   <<<<kA, kB>>, Obj(kC :> Prim(2))>>,
   <<<<kA, kB, kC>>, Prim(2)>>,
   <<<<kA, kB, kC>>, Null>>}

ModesNext ==
  \/ \E atomic \in BOOLEAN : PublishSelector(ModeSelector, atomic)
  \/ \E w \in ModeWrites : steps < MaxModeWrites /\ LocalWrite(w[1], w[2])

SpecModes == Init /\ [][ModesNext]_vars

\* a step of a local write
writeStep == steps' = steps + 1 /\ op'.kind = "write"

\* the <<topic, value>> pairs of the _enqueue calls from the k-th on
enqueuedFrom(log, k) == [i \in 1..(Len(log) - k) |-> <<log[k + i].topic, log[k + i].value>>]

\* what the write of the step enqueues with the given listeners only
enqueuesWith(ls) ==
  enqueuedFrom(dataUpdate([Instance EXCEPT !.listeners = ls],
                          op'.arg[1], op'.arg[2], NoTags).enqLog, Len(enqLog))

\* C38: after the selector has been published in one mode and then in the
\* other, a local write is processed in the mode registered last only: it
\* enqueues what it would enqueue with that registration alone
C38_LastModeOnly ==
  [][writeStep /\ Len(listeners) = 2 =>
       enqueuedFrom(enqLog', Len(enqLog)) = enqueuesWith(<<listeners[2]>>)]_vars

\* C39: under an atomic publication every _enqueue of a local write goes to a
\* topic that has as many segments as the selector without '#' and that the
\* selector matches, with the cache's subdocument at that topic as value
C39_AtomicAtSelectorDepth ==
  [][writeStep /\ Len(listeners) = 1 /\ listeners[1].atomic =>
       \A i \in (Len(enqLog) + 1)..Len(enqLog') :
         LET e == enqLog'[i]
         IN /\ Len(topicToPath(e.topic)) = Len(topicToPath(ModeSelector))
            /\ brokerSends(listeners[1].topic, e.topic)
            /\ e.value = get(data', topicToPath(e.topic))]_vars

-----------------------------------------------------------------------------
(* Properties of the order of migrate's steps and onReady *)

\* the callbacks waiting for a heartbeat, in the order they will be invoked
pendingCallbacks == heartbeatWaitersOnce \o timers
migrationStep(cb) == cb.kind \in {"migrate1", "migrate2", "clear"}

\* C37: with a migrate list, onReady is invoked only after every item is
\* through its clear step: once onReady has been called no step of an item,
\* its clear included, is waiting for a heartbeat, and before that no step of
\* an item waits behind onReady
C37_ReadyAfterClears ==
  mig.opt = "list" =>
    /\ Len(hbLog.onReady) > 0 =>
         \A i \in DOMAIN pendingCallbacks : ~migrationStep(pendingCallbacks[i])
    /\ \A i, j \in DOMAIN pendingCallbacks :
         pendingCallbacks[i].kind = "onReady" /\ migrationStep(pendingCallbacks[j]) => j < i

\* onReady has been called after two items went through their clear step
C37_Witness ==
  /\ mig.opt = "list" /\ Len(hbLog.onReady) > 0
  /\ \E i, j \in DOMAIN hbLog.items : i # j /\ hbLog.items[i].cleared /\ hbLog.items[j].cleared

-----------------------------------------------------------------------------
(* Migration of one item with the broker: publication of the merged value,  *)
(* then the clear of the older version                                       *)

\* the retained messages of the old version before the migration
WindowStores ==
  {oldA :> Prim(1),
   oldAb :> Prim(2),
   oldAb :> Prim(2) @@ oldB :> Prim(1),
   oldA :> Obj(kB :> Prim(2))}

\* the document the retained messages of stored make
RECURSIVE docOf(_, _)
docOf(stored, topics) ==
  IF topics = {} THEN EmptyObj
  ELSE LET t == CHOOSE x \in topics : TRUE
       IN _set(docOf(stored, topics \ {t}), topicToPath(t), stored[t])

WindowItems ==
  {[topic |-> pathToTopic(capabilityPath \o << <<"+">> >> \o sub),
    newVersion |-> newVersion, all |-> <<oldVersion>>, transform |-> transform] :
     sub \in MigrateSubs, transform \in {"none", "wrap"}}

\* the instance when the subscription of the item has been granted and the
\* retained messages of the old version have arrived
WindowScenarios ==
  {LET seen == {t \in DOMAIN stored : brokerSends(subTopicOf(item), t)}
   IN [kind |-> "window",
       mig |-> [opt |-> "list", toGo |-> 1, subscribing |-> <<>>, cleanup |-> <<item>>],
       timers |-> <<Cb("migrate1", 1, FALSE, TRUE)>>,
       subs |-> {subTopicOf(item)}, broker |-> stored,
       data |-> docOf(stored, seen),
       received |-> SelectSeq(StoredTopics, LAMBDA t : t \in seen)] :
     item \in WindowItems, stored \in WindowStores}

WindowInit == \E scenario \in WindowScenarios : SessionStarts(scenario)

WindowNext ==
  \/ BrokerHeartbeat
  \/ ReceiveHeartbeat
  \/ ReceiveRetained
  \/ TimerFires

SpecWindow == WindowInit /\ [][WindowNext]_vars

\* the value the broker's retained messages make at version/sub of the
\* capability
retainedAt(stored, version, sub) ==
  _get(docOf(stored, DOMAIN stored), capabilityPath \o <<version>> \o sub)

\* C36: migration never opens a window in which data exists in no version:
\* when the clear of a migration item deletes the retained messages of the
\* older version, the broker already holds at newVersion the merged value of
\* what is deleted, published before the clear was called (and so at least
\* one heartbeat before the deletions).
C36_NoWindow ==
  \A i \in DOMAIN clearLog :
    clearLog[i].done /\ clearLog[i].published # <<>> =>
      LET item == mig.cleanup[1]
          sub == parseMQTTTopic(item.topic).sub
          before == clearLog[i].brokerBefore
      IN /\ clearLog[i].sentBefore >= 1
         /\ retainedAt(before, item.newVersion, sub) =
              applyTransform(item.transform, retainedAt(before, oldVersion, sub))

\* the publication at newVersion precedes the deletions of the clear
C36_PublishedFirst ==
  \A i \in DOMAIN clearLog :
    clearLog[i].done /\ clearLog[i].published # <<>> =>
      /\ clearLog[i].sentBefore = 1
      /\ brokerLog[1][2] # Null
      /\ \A k \in 2..Len(brokerLog) : brokerLog[k][2] = Null

\* a migration that loses nothing: the old version held an object at sub
C36_Kept ==
  \E i \in DOMAIN clearLog :
    /\ clearLog[i].done /\ clearLog[i].published # <<>>
    /\ retainedAt(broker, newVersion, <<kA>>) = Obj(kB :> Prim(2))

====
